---- MODULE Spec2Model ----
(***************************************************************************)
(* A model of the game platform's session engine (backend/app/services/    *)
(* game_engine.py), the rotating-board rule engine (games/pentago) and the *)
(* connection handlers (services/game_state.py, api/games.py).             *)
(*                                                                         *)
(* One session is modelled.  The registry entry of the session is a        *)
(* GameState object; GameEngine.process_move replaces the registered       *)
(* object by a fresh copy, while the timer task keeps the reference it     *)
(* read at the top of its loop across every await.  The model therefore    *)
(* keeps the registered object (active_games) and, when a move has        *)
(* replaced it in the middle of a tick, the object the tick still holds    *)
(* (tgs).  The falling-piece engine (services/tetris_game_engine.py,       *)
(* games/tetris) is modelled the same way, under SpecTetris.               *)
(***************************************************************************)
EXTENDS Integers, Sequences, FiniteSets, TLC

\* Python's None, for optional integer fields and empty cells.
None == 0 - 1

\* ---------------------------------------------------------------- bounds
\* TimeControl.initial_time and .increment of the session (Spec).
InitialTime == 1
Increment == 1
\* Accepted moves after which the clients stop submitting (Spec).
MaxMoves == 7
\* The same for the long time control (SpecLong): initial_time exceeds the
\* 30-second reconnection countdown so that the countdown can expire.
LongInitialTime == 31
LongMaxMoves == 3
\* The falling-piece session (SpecTetris): TimeControl.increment, the seconds
\* a slot has per piece; placed pieces after which the clients stop
\* submitting; and how many of the seven pieces a bag draw can yield.
TetrisIncrement == 2
TetrisMaxPlaced == 1
TetrisBagSize == 2

\* ------------------------------------------------------ program constants
BOARD_SIZE == 8
QUADRANT_SIZE == 4
FIRST_MOVE_SECONDS == 30
DISCONNECT_SECONDS == 30

Slots == {0, 1}
Cells == 0 .. (BOARD_SIZE - 1)
Directions == {"clockwise", "counterclockwise"}

Opponent(p) == (p + 1) % 2

\* ------------------------------------------------------------ rule engine
\* PentagoBoard.initialize_board: grid[y][x], all cells None.
initialize_board == [y \in Cells |-> [x \in Cells |-> None]]

\* PentagoBoard.is_valid_move
is_valid_move(grid, move) ==
    /\ 0 <= move.x /\ move.x < BOARD_SIZE
    /\ 0 <= move.y /\ move.y < BOARD_SIZE
    /\ grid[move.y][move.x] = None
    /\ 0 <= move.quadrant /\ move.quadrant < 4
    /\ move.direction \in Directions

\* PentagoBoard._rotate_quadrant: rotated[c][Q-1-r] = data[r][c] (clockwise),
\* rotated[Q-1-c][r] = data[r][c] (counterclockwise), written back in place.
rotate_quadrant(grid, quadrant, direction) ==
    LET start_row == (quadrant \div 2) * QUADRANT_SIZE
        start_col == (quadrant % 2) * QUADRANT_SIZE
        inq(y, x) == /\ start_row <= y /\ y < start_row + QUADRANT_SIZE
                     /\ start_col <= x /\ x < start_col + QUADRANT_SIZE
        src(i, j) == IF direction = "clockwise"
                     THEN grid[start_row + (QUADRANT_SIZE - 1 - j)][start_col + i]
                     ELSE grid[start_row + j][start_col + (QUADRANT_SIZE - 1 - i)]
    IN [y \in Cells |-> [x \in Cells |->
            IF inq(y, x) THEN src(y - start_row, x - start_col) ELSE grid[y][x]]]

\* PentagoBoard.apply_move: place the mark, then rotate the quadrant.
apply_move(grid, move, player_id) ==
    rotate_quadrant([grid EXCEPT ![move.y][move.x] = player_id],
                    move.quadrant, move.direction)

SetMin(S) == CHOOSE m \in S : \A n \in S : m <= n

\* check_line with its loop one window short: the run that ends at the last
\* cell of the line is never looked at.
check_line_short(line, n) ==
    LET hits == {i \in 0 .. (n - 5) :
                    /\ line[i] # None
                    /\ line[i] = line[i + 1]
                    /\ line[i] = line[i + 2]
                    /\ line[i] = line[i + 3]}
    IN IF hits = {} THEN None ELSE line[SetMin(hits)]

\* check_line of PentagoBoard.check_winner on a line given as a function on
\* 0..n-1: the mark of the first window of four equal non-empty cells.
check_line(line, n) ==
    LET hits == {i \in 0 .. (n - 4) :
                    /\ line[i] # None
                    /\ line[i] = line[i + 1]
                    /\ line[i] = line[i + 2]
                    /\ line[i] = line[i + 3]}
    IN IF hits = {} THEN None ELSE line[SetMin(hits)]

\* PentagoBoard.check_winner: rows, then columns, then the 4-cell diagonals
\* (main before anti) of every window, each in scan order; first hit wins.
check_winner(grid) ==
    LET row(r) == check_line(grid[r], BOARD_SIZE)
        col(c) == check_line([r \in Cells |-> grid[r][c]], BOARD_SIZE)
        W == 0 .. (BOARD_SIZE - 4)
        main(sr, sc) == check_line([s \in 0 .. 3 |-> grid[sr + s][sc + s]], 4)
        anti(sr, sc) == check_line([s \in 0 .. 3 |-> grid[sr + s][sc + 3 - s]], 4)
        \* diagonal checks numbered in scan order
        diag(k) == LET w == k \div 2
                       sr == w \div (BOARD_SIZE - 3)
                       sc == w % (BOARD_SIZE - 3)
                   IN IF k % 2 = 0 THEN main(sr, sc) ELSE anti(sr, sc)
        rows == {r \in Cells : row(r) # None}
        cols == {c \in Cells : col(c) # None}
        diags == {k \in 0 .. (2 * (BOARD_SIZE - 3) * (BOARD_SIZE - 3) - 1) :
                     diag(k) # None}
    IN IF rows # {} THEN row(SetMin(rows))
       ELSE IF cols # {} THEN col(SetMin(cols))
       ELSE IF diags # {} THEN diag(SetMin(diags))
       ELSE None

\* PentagoBoard.is_draw
is_draw(grid) == \A y \in Cells : \A x \in Cells : grid[y][x] # None

\* ------------------------------------------------------------- game state
\* GameState (games/base.py); winner holds the winning slot (the code stores
\* that slot's player name), None for "no winner".  time_control is kept in
\* the variable of that name: no operation changes it.
NoGame == [status |-> "absent"]

\* PentagoGame.initialize_game followed by the assignments of
\* GameEngine.create_game (first_move_count = 0); `first` is the outcome of
\* random.randint(0, 1).
initialize_game(tc, first) ==
    [status |-> "waiting",
     current_player |-> first,
     grid |-> initialize_board,
     time_remaining |-> [i \in Slots |-> tc.initial_time],
     winner |-> None,
     moves_history |-> << >>,
     first_move_timer |-> None,
     first_move_player |-> None,
     first_move_count |-> 0,
     rated |-> TRUE,
     disconnect_timer |-> None,
     disconnected_player |-> None]

\* GameMove with the attributes process_move attaches to it.
GameMove(player_id, move_data, g) ==
    [player_id |-> player_id,
     move_data |-> move_data,
     board_state_after |-> g.grid,
     time_remaining_after |-> g.time_remaining]

\* The copy PentagoGame.process_move starts from: the constructor call passes
\* neither first_move_timer, first_move_player nor rated (dataclass defaults),
\* and the copy has no first_move_count attribute (None here).
copy_state(g) ==
    [g EXCEPT !.first_move_timer = None,
              !.first_move_player = None,
              !.first_move_count = None,
              !.rated = TRUE]

\* The first-move bookkeeping leaving the phase with the first move.
first_move_phase_one_move(g) ==
    IF g.status # "first_move" THEN g
    ELSE IF Len(g.moves_history) >= 1
         THEN [g EXCEPT !.status = "playing",
                        !.first_move_timer = None,
                        !.first_move_player = None]
    ELSE g

\* The first-move bookkeeping of PentagoGame.process_move (lines 116-130).
first_move_phase(g) ==
    IF g.status # "first_move" THEN g
    ELSE IF Len(g.moves_history) = 1
         THEN [g EXCEPT !.first_move_player = Opponent(g.current_player),
                        !.first_move_timer = FIRST_MOVE_SECONDS]
    ELSE IF Len(g.moves_history) = Cardinality(Slots)
         THEN [g EXCEPT !.status = "playing",
                        !.first_move_timer = None,
                        !.first_move_player = None]
    ELSE g

\* The same part with line 143 left out: the turn stays where it was.
settle_turn_same_turn(g) ==
    LET winner == check_winner(g.grid)
    IN IF winner # None
       THEN [g EXCEPT !.winner = winner, !.status = "finished"]
       ELSE IF is_draw(g.grid)
       THEN [g EXCEPT !.winner = None, !.status = "finished"]
       ELSE g

\* The winner/draw/turn part of PentagoGame.process_move (lines 132-143).
settle_turn(g) ==
    LET winner == check_winner(g.grid)
    IN IF winner # None
       THEN [g EXCEPT !.winner = winner, !.status = "finished"]
       ELSE IF is_draw(g.grid)
       THEN [g EXCEPT !.winner = None, !.status = "finished"]
       ELSE IF g.status # "finished"
       THEN [g EXCEPT !.current_player = Opponent(g.current_player)]
       ELSE g

\* PentagoGame.process_move without its turn check.
logic_process_move_any_turn(g, move, player_id, tc) ==
    LET new == copy_state(g)
    IN IF ~is_valid_move(new.grid, move)
       THEN [state |-> new, valid |-> FALSE]
       ELSE LET placed == [new EXCEPT
                              !.grid = apply_move(new.grid, move, player_id),
                              !.time_remaining[player_id] = @ + tc.increment]
                logged == [placed EXCEPT !.moves_history =
                              Append(@, GameMove(player_id, move, placed))]
            IN [state |-> settle_turn(first_move_phase(logged)), valid |-> TRUE]

\* PentagoGame.process_move: <<new_state, valid>> as a record.
logic_process_move(g, move, player_id, tc) ==
    LET new == copy_state(g)
    IN IF player_id # new.current_player
       THEN [state |-> new, valid |-> FALSE]
       ELSE IF ~is_valid_move(new.grid, move)
       THEN [state |-> new, valid |-> FALSE]
       ELSE LET placed == [new EXCEPT
                              !.grid = apply_move(new.grid, move, player_id),
                              !.time_remaining[player_id] = @ + tc.increment]
                logged == [placed EXCEPT !.moves_history =
                              Append(@, GameMove(player_id, move, placed))]
            IN [state |-> settle_turn(first_move_phase(logged)), valid |-> TRUE]

\* GameEngine.process_move, lines 286-317, on a valid move: the first-move
\* counter and the turn_completed marker; the result is the object stored
\* in active_games.
engine_accept(g, new) ==
    LET counted ==
            IF new.status = "first_move"
            THEN LET c == (IF new.first_move_count = None THEN 0
                           ELSE new.first_move_count) + 1
                 IN IF c >= 2
                    THEN [new EXCEPT !.first_move_count = c,
                                     !.status = "playing",
                                     !.first_move_timer = None,
                                     !.first_move_player = None]
                    ELSE [new EXCEPT !.first_move_count = c]
            ELSE new
    IN IF counted.current_player # g.current_player /\ counted.status # "first_move"
       THEN [counted EXCEPT !.moves_history =
                Append(@, GameMove(g.current_player,
                                   [type |-> "turn_completed"], counted))]
       ELSE counted

\* GameEngine.process_move on the registered object g: the value returned
\* and the object registered in active_games afterwards.
engine_process_move(g, player_id, move, tc) ==
    LET r == logic_process_move(g, move, player_id, tc)
    IN IF r.valid
       THEN [valid |-> TRUE, stored |-> engine_accept(g, r.state)]
       ELSE [valid |-> FALSE, stored |-> g]

\* ------------------------------------------------------------------ state
VARIABLES
    time_control,    \* the session's TimeControl (initial_time, increment)
    active_games,    \* GameEngine.active_games[game_id], NoGame when absent
    finished_games,  \* GameEngine.finished_games[game_id], NoGame when absent
    pc,              \* where the session's _game_timer task stands
    stale,           \* TRUE when the task's game_state is no longer the
                     \* object registered in active_games
    tgs,             \* that detached object (NoGame unless stale)
    conns,           \* game_connections[game_id]: the connected slots
    reply,           \* the error sent to the client by the last step, or ""
    pools,           \* matchmaking.pools: the dict, in insertion order
    games,           \* the calls of create_matched_game, in order
    joins,           \* the WaitingPlayer entries built so far
    last,            \* the matchmaking handler that ran last, with its input
    game_connections, \* game_state.game_connections[game_id]
    broken,          \* the participants whose registered websocket fails on send
    frames,          \* the calls of broadcast_to_game in progress
    timer,           \* the state of the timer task that broadcasts
    log,             \* the persistence calls of _cleanup_finished_game
    grace,           \* seconds left of _cleanup_finished_game_after_delay's
                     \* sleep, None while no such task exists
    bot_tasks,       \* the schedule_bot_move tasks asleep, each with the
                     \* GameState it was created with
    recovery,        \* the recovery tables and the requests in progress
    match_ws         \* the websockets of /ws/matchmaking: the participants
                     \* whose socket fails on send (closed), those whose
                     \* handler has returned (gone), and the match_found
                     \* messages delivered, in order (sent)

vars == <<time_control, active_games, finished_games, pc, stale, tgs, conns, reply,
          pools, games, joins, last, game_connections, broken, frames, timer, log,
          grace, bot_tasks, recovery, match_ws>>

\* The parts of the program a model of one part keeps at rest: no delayed
\* cleanup pending, no bot task asleep, no account recovery under way, every
\* matchmaking websocket open and nothing sent on one.
NoRecovery == [status |-> "absent"]

NoSockets == [closed |-> {}, gone |-> {}, sent |-> << >>]

NoOther ==
    /\ grace = None /\ bot_tasks = << >> /\ recovery = NoRecovery
    /\ match_ws = NoSockets

OtherUntouched == UNCHANGED <<grace, bot_tasks, recovery, match_ws>>

\* A session's handlers and its timer task do not touch the matchmaking
\* queue; a session is modelled with the queue empty.
NoQueue == pools = << >> /\ games = << >> /\ joins = 0 /\ last = << >>

QueueUntouched == UNCHANGED <<pools, games, joins, last>>

\* The connection registry as the broadcast model sees it (its definitions
\* are below), at rest.
NoConnections == [present |-> FALSE, entries |-> << >>]

IdleFrame ==
    [pc |-> "idle", pos |-> 0, di_used |-> 0, to |-> None, fails |-> FALSE,
     disconnected |-> << >>, orphan |-> FALSE, got |-> {}]

Issuers == {"tick", "handler"}

NoBroadcast ==
    /\ game_connections = NoConnections
    /\ broken = {}
    /\ frames = [i \in Issuers |-> IdleFrame]
    /\ timer = "sleeping"

BroadcastUntouched == UNCHANGED <<game_connections, broken, frames, timer>>

\* What the model of a session leaves out and keeps at rest.
SessionOnlyInit == NoQueue /\ NoBroadcast /\ log = << >> /\ NoOther

SessionOnly == QueueUntouched /\ BroadcastUntouched /\ UNCHANGED log /\ OtherUntouched

\* Positions of _game_timer: "loop" is the top of the while loop (the task
\* has been created, or sleeps in asyncio.sleep(1)); the others are the
\* awaits of broadcast_state at lines 375, 372, 393, 403 and 480.
Suspended == {"bcast_first_move", "bcast_first_move_timeout", "bcast_clock",
              "bcast_clock_timeout", "bcast_disconnect"}

\* GameEngine.get_game_state
get_game_state ==
    IF active_games # NoGame THEN active_games ELSE finished_games

\* The object the timer task's local game_state refers to.
TickState == IF stale THEN tgs ELSE active_games

\* Marks on the board: one per accepted move.
MovesMade(g) ==
    Cardinality({c \in Cells \X Cells : g.grid[c[1]][c[2]] # None})

\* ----------------------------------------------------------- client input
\* The moves the client of a slot submits.  Each client plays along a row of
\* its own (row 0 for slot 0, the last row for slot 1) and turns the lower
\* left quadrant clockwise: its valid move marks the leftmost empty cell of
\* its row.  Its other submissions are an out-of-range cell, the occupied
\* cell left of that one, a bad quadrant and a bad direction.
OwnRow(slot) == slot * (BOARD_SIZE - 1)

ClientMoves(grid, slot) ==
    LET y == OwnRow(slot)
        free == {x \in Cells : grid[y][x] = None}
        at(x, q, d) == [x |-> x, y |-> y, quadrant |-> q, direction |-> d]
    IN IF free = {} THEN {at(BOARD_SIZE, 2, "clockwise")}
       ELSE LET x == SetMin(free)
            IN {at(x, 2, "clockwise"),
                at(BOARD_SIZE, 2, "clockwise"),
                at(x, 4, "clockwise"),
                at(x, 2, "sideways")}
               \cup (IF x > 0 THEN {at(x - 1, 2, "clockwise")} ELSE {})

SubmittedMoves(slot) ==
    IF active_games = NoGame THEN {} ELSE ClientMoves(active_games.grid, slot)

\* ------------------------------------------------------------------- init
\* The state after create_matched_game: the session is registered, its
\* timer task created, nobody connected yet.
InitWith(tc) ==
    /\ SessionOnlyInit
    /\ time_control = tc
    /\ \E first \in Slots : active_games = initialize_game(tc, first)
    /\ finished_games = NoGame
    /\ pc = "loop"
    /\ stale = FALSE
    /\ tgs = NoGame
    /\ conns = {}
    /\ reply = ""

Init == InitWith([initial_time |-> InitialTime, increment |-> Increment])

InitLong == InitWith([initial_time |-> LongInitialTime, increment |-> 0])

\* ------------------------------------------------------- websocket: moves
\* websocket_endpoint, action == 'move' (api/games.py 109-146): the session
\* is looked up and the message refused unless its status is first_move,
\* playing or disconnect_wait.
MoveRefused(slot) ==
    /\ SessionOnly
    /\ slot \in conns
    /\ get_game_state = NoGame
         \/ get_game_state.status \notin {"first_move", "playing", "disconnect_wait"}
    /\ reply' = "game not in playing state"
    /\ UNCHANGED <<time_control, active_games, finished_games, pc, stale, tgs, conns>>

\* The same handler past that check, with the call of
\* GameEngine.process_move it makes.  A valid move registers a new object; a
\* timer task suspended in a broadcast keeps the object it read.
ClientMove(slot, move, cap) ==
    /\ SessionOnly
    /\ slot \in conns
    /\ active_games # NoGame
    /\ active_games.status \in {"first_move", "playing", "disconnect_wait"}
    /\ MovesMade(active_games) < cap
    /\ move \in ClientMoves(active_games.grid, slot)
    /\ LET r == engine_process_move(active_games, slot, move, time_control)
       IN IF r.valid
          THEN /\ active_games' = r.stored
               /\ IF pc \in Suspended /\ ~stale
                  THEN stale' = TRUE /\ tgs' = active_games
                  ELSE UNCHANGED <<stale, tgs>>
               /\ reply' = ""
          ELSE /\ reply' = "invalid move"
               /\ UNCHANGED <<active_games, stale, tgs>>
    /\ UNCHANGED <<time_control, finished_games, pc, conns>>

\* ------------------------------------------------ websocket: join and leave
\* The reconnection branch of handle_player_join (lines 241-247).
rejoin(g, player_index) ==
    IF g.status = "disconnect_wait" /\ g.disconnected_player = player_index
    THEN [g EXCEPT !.status = "playing",
                   !.disconnect_timer = None,
                   !.disconnected_player = None]
    ELSE g

\* handle_player_join for the user of `slot`: the object get_game_state
\* returns is changed in place, then the connection is added.
Join(slot) ==
    /\ SessionOnly
    /\ get_game_state # NoGame
    /\ IF active_games # NoGame
       THEN active_games' = rejoin(active_games, slot) /\ UNCHANGED finished_games
       ELSE finished_games' = rejoin(finished_games, slot) /\ UNCHANGED active_games
    /\ conns' = conns \cup {slot}
    /\ reply' = ""
    /\ UNCHANGED <<time_control, pc, stale, tgs>>

\* The disconnection branch of handle_player_leave (lines 298-315).
start_disconnect_wait(g, player_index) ==
    [g EXCEPT !.status = "disconnect_wait",
              !.disconnect_timer = DISCONNECT_SECONDS,
              !.disconnected_player = player_index]

\* handle_player_leave for the user of `slot` (a leave message or a closed
\* socket): the connection is removed; a session in status playing is ended
\* (GameEngine.end_game: registry entry deleted, timer task cancelled) when
\* nobody is left, and put in disconnect_wait when one connection is left.
Leave(slot) ==
    /\ SessionOnly
    /\ slot \in conns
    /\ conns' = conns \ {slot}
    /\ reply' = ""
    /\ LET g == get_game_state
           connected_count == Cardinality(conns \ {slot})
       IN IF g # NoGame /\ g.status = "playing" /\ connected_count = 0
          THEN /\ active_games' = NoGame
               /\ pc' = IF pc = "done" THEN "done" ELSE "cancelled"
               /\ stale' = FALSE
               /\ tgs' = NoGame
               /\ UNCHANGED finished_games
          ELSE IF g # NoGame /\ g.status = "playing" /\ connected_count = 1
          THEN /\ IF active_games # NoGame
                  THEN /\ active_games' = start_disconnect_wait(active_games, slot)
                       /\ UNCHANGED finished_games
                  ELSE /\ finished_games' = start_disconnect_wait(finished_games, slot)
                       /\ UNCHANGED active_games
               /\ UNCHANGED <<pc, stale, tgs>>
          ELSE UNCHANGED <<active_games, finished_games, pc, stale, tgs>>
    /\ UNCHANGED time_control

\* ------------------------------------------------------------ timer task
\* The first tick taking the branch of the falling-piece game.
first_move_init_playing(g) ==
    IF g.status = "waiting"
    THEN [g EXCEPT !.status = "playing"]
    ELSE g

\* _game_timer, lines 350-361: the first tick of a session with two players.
first_move_init(g) ==
    IF g.status = "waiting"
    THEN [g EXCEPT !.status = "first_move",
                   !.first_move_player = g.current_player,
                   !.first_move_timer = FIRST_MOVE_SECONDS]
    ELSE g

\* The first-move forfeit awarded to the slot on the clock.
first_move_tick_on_clock_wins(g) ==
    LET t == [g EXCEPT !.first_move_timer = @ - 1]
    IN IF t.first_move_timer <= 0
       THEN [t EXCEPT !.winner = t.current_player, !.status = "finished"]
       ELSE t

\* lines 365-371: the first-move countdown and its forfeit.
first_move_tick(g) ==
    LET t == [g EXCEPT !.first_move_timer = @ - 1]
    IN IF t.first_move_timer <= 0
       THEN [t EXCEPT !.winner = Opponent(t.current_player), !.status = "finished"]
       ELSE t

\* A tick that charges the slot that is not on turn.
clock_tick_other_slot(g) ==
    [g EXCEPT !.time_remaining[Opponent(g.current_player)] = @ - 1]

\* line 386: the on-turn slot's clock loses a second.
clock_tick(g) == [g EXCEPT !.time_remaining[g.current_player] = @ - 1]

\* lines 395-399: the clock forfeit, evaluated after the broadcast.
clock_forfeit(g) ==
    [g EXCEPT !.winner = Opponent(g.current_player), !.status = "finished"]

\* The condition of the disconnection block (lines 460-466).
disconnect_running(g) ==
    /\ g.status # "finished"
    /\ g.disconnect_timer # None
    /\ g.disconnect_timer # 0
    /\ g.disconnect_timer > 0

\* lines 467-479: the reconnection countdown and its forfeit.
disconnect_tick(g) ==
    LET t == [g EXCEPT !.disconnect_timer = @ - 1]
    IN IF t.disconnect_timer <= 0
       THEN [t EXCEPT !.winner = Opponent(t.disconnected_player),
                      !.status = "finished",
                      !.disconnect_timer = None,
                      !.disconnected_player = None]
       ELSE t

\* The task assigns to the object it holds.
TickStore(g) ==
    /\ IF stale
       THEN tgs' = g /\ UNCHANGED active_games
       ELSE active_games' = g /\ UNCHANGED tgs
    /\ UNCHANGED <<stale, finished_games>>

\* A cleanup that leaves the active_games entry in place.
cleanup_finished_game_keeps_entry(g) ==
    /\ finished_games' = g
    /\ UNCHANGED active_games
    /\ stale' = FALSE
    /\ tgs' = NoGame
    /\ pc' = "done"

\* _cleanup_finished_game(game_id, game_state) and the break that follows:
\* the task's object becomes the finished_games entry, the active_games
\* entry is deleted, the task ends.
cleanup_finished_game(g) ==
    /\ finished_games' = g
    /\ active_games' = NoGame
    /\ stale' = FALSE
    /\ tgs' = NoGame
    /\ pc' = "done"

\* lines 482-487: the end of an iteration.
TickConclude(g) ==
    IF g.status = "finished"
    THEN cleanup_finished_game(g)
    ELSE /\ pc' = "loop"
         /\ stale' = FALSE
         /\ tgs' = NoGame
         /\ UNCHANGED <<active_games, finished_games>>

\* lines 459-487 from the disconnection block on.
TickDisconnect(g) ==
    IF disconnect_running(g)
    THEN TickStore(disconnect_tick(g)) /\ pc' = "bcast_disconnect"
    ELSE TickConclude(g)

\* One iteration from the top of the loop to its first await.
TickLoop ==
    /\ SessionOnly
    /\ pc = "loop"
    /\ reply' = ""
    /\ UNCHANGED <<time_control, conns>>
    /\ IF active_games = NoGame
       THEN pc' = "done" /\ UNCHANGED <<active_games, finished_games, stale, tgs>>
       ELSE LET g == first_move_init(active_games)
            IN IF g.status = "first_move"
               THEN /\ TickStore(first_move_tick(g))
                    /\ pc' = IF first_move_tick(g).status = "finished"
                             THEN "bcast_first_move_timeout"
                             ELSE "bcast_first_move"
               ELSE IF g.status \in {"playing", "disconnect_wait"}
               THEN TickStore(clock_tick(g)) /\ pc' = "bcast_clock"
               ELSE TickDisconnect(g)

\* The task resumes after the broadcast of line 375.
TickAfterFirstMove ==
    /\ SessionOnly
    /\ pc = "bcast_first_move"
    /\ reply' = ""
    /\ UNCHANGED <<time_control, conns>>
    /\ TickDisconnect(TickState)

\* The task resumes after the broadcast of line 393.
TickAfterClock ==
    /\ SessionOnly
    /\ pc = "bcast_clock"
    /\ reply' = ""
    /\ UNCHANGED <<time_control, conns>>
    /\ LET g == TickState
       IN IF g.time_remaining[g.current_player] <= 0
          THEN TickStore(clock_forfeit(g)) /\ pc' = "bcast_clock_timeout"
          ELSE TickDisconnect(g)

\* The task resumes after the broadcast of line 372 or 403.
TickAfterTimeout ==
    /\ SessionOnly
    /\ pc \in {"bcast_first_move_timeout", "bcast_clock_timeout"}
    /\ reply' = ""
    /\ UNCHANGED <<time_control, conns>>
    /\ cleanup_finished_game(TickState)

\* The task resumes after the broadcast of line 480.
TickAfterDisconnect ==
    /\ SessionOnly
    /\ pc = "bcast_disconnect"
    /\ reply' = ""
    /\ UNCHANGED <<time_control, conns>>
    /\ TickConclude(TickState)

Tick ==
    \/ TickLoop
    \/ TickAfterFirstMove
    \/ TickAfterClock
    \/ TickAfterTimeout
    \/ TickAfterDisconnect

\* ---------------------------------------------------------- specification
NextWith(cap) ==
    \/ \E slot \in Slots : MoveRefused(slot)
    \/ \E slot \in Slots : \E move \in SubmittedMoves(slot) : ClientMove(slot, move, cap)
    \/ \E slot \in Slots : Join(slot)
    \/ \E slot \in Slots : Leave(slot)
    \/ Tick

Next == NextWith(MaxMoves)

Spec == Init /\ [][Next]_vars

NextLong == NextWith(LongMaxMoves)

SpecLong == InitLong /\ [][NextLong]_vars

\* ------------------------------------------------- falling-piece game board
\* TetrisBoard (games/tetris/board.py).  A shape is the set of the <<px, py>>
\* offsets at which its matrix holds 1; rotation r is element r + 1.
BOARD_WIDTH == 10
BOARD_HEIGHT == 20

PIECES ==
       "I" :> <<{<<0, 1>>, <<1, 1>>, <<2, 1>>, <<3, 1>>},
                 {<<2, 0>>, <<2, 1>>, <<2, 2>>, <<2, 3>>},
                 {<<0, 2>>, <<1, 2>>, <<2, 2>>, <<3, 2>>},
                 {<<1, 0>>, <<1, 1>>, <<1, 2>>, <<1, 3>>}>>
    @@ "O" :> <<{<<1, 0>>, <<2, 0>>, <<1, 1>>, <<2, 1>>},
                 {<<1, 0>>, <<2, 0>>, <<1, 1>>, <<2, 1>>},
                 {<<1, 0>>, <<2, 0>>, <<1, 1>>, <<2, 1>>},
                 {<<1, 0>>, <<2, 0>>, <<1, 1>>, <<2, 1>>}>>
    @@ "T" :> <<{<<1, 0>>, <<0, 1>>, <<1, 1>>, <<2, 1>>},
                 {<<1, 0>>, <<1, 1>>, <<2, 1>>, <<1, 2>>},
                 {<<0, 1>>, <<1, 1>>, <<2, 1>>, <<1, 2>>},
                 {<<1, 0>>, <<0, 1>>, <<1, 1>>, <<1, 2>>}>>
    @@ "S" :> <<{<<1, 0>>, <<2, 0>>, <<0, 1>>, <<1, 1>>},
                 {<<1, 0>>, <<1, 1>>, <<2, 1>>, <<2, 2>>},
                 {<<1, 1>>, <<2, 1>>, <<0, 2>>, <<1, 2>>},
                 {<<0, 0>>, <<0, 1>>, <<1, 1>>, <<1, 2>>}>>
    @@ "Z" :> <<{<<0, 0>>, <<1, 0>>, <<1, 1>>, <<2, 1>>},
                 {<<2, 0>>, <<1, 1>>, <<2, 1>>, <<1, 2>>},
                 {<<0, 1>>, <<1, 1>>, <<1, 2>>, <<2, 2>>},
                 {<<1, 0>>, <<0, 1>>, <<1, 1>>, <<0, 2>>}>>
    @@ "J" :> <<{<<0, 0>>, <<0, 1>>, <<1, 1>>, <<2, 1>>},
                 {<<1, 0>>, <<2, 0>>, <<1, 1>>, <<1, 2>>},
                 {<<0, 1>>, <<1, 1>>, <<2, 1>>, <<2, 2>>},
                 {<<1, 0>>, <<1, 1>>, <<0, 2>>, <<1, 2>>}>>
    @@ "L" :> <<{<<2, 0>>, <<0, 1>>, <<1, 1>>, <<2, 1>>},
                 {<<1, 0>>, <<1, 1>>, <<1, 2>>, <<2, 2>>},
                 {<<0, 1>>, <<1, 1>>, <<2, 1>>, <<0, 2>>},
                 {<<0, 0>>, <<1, 0>>, <<1, 1>>, <<1, 2>>}>>

PieceTypes == DOMAIN PIECES

NoPiece == [type |-> "none"]

EmptyRow == [x \in 1 .. BOARD_WIDTH |-> 0]

\* TetrisBoard.initialize_board; `piece` is what _generate_next_piece draws.
tetris_initialize_board(piece) ==
    [grid |-> [y \in 1 .. BOARD_HEIGHT |-> EmptyRow],
     next_pieces |-> <<piece>>,
     scores |-> [i \in Slots |-> 0],
     falling_piece |-> NoPiece,
     current_player_piece |-> "none",
     top_out |-> FALSE,
     lines_cleared |-> None]

\* TetrisBoard._can_place_piece
can_place_piece(grid, piece_shape, x, y) ==
    \A c \in piece_shape :
        LET gx == x + c[1]
            gy == y + c[2]
        IN /\ 0 <= gx /\ gx < BOARD_WIDTH
           /\ 0 <= gy /\ gy < BOARD_HEIGHT
           /\ grid[gy + 1][gx + 1] = 0

\* TetrisBoard._can_place_falling_piece
can_place_falling_piece(grid, piece) ==
    /\ piece.type \in PieceTypes
    /\ can_place_piece(grid, PIECES[piece.type][piece.rotation + 1], piece.x, piece.y)

IsFull(row) == \A x \in 1 .. BOARD_WIDTH : row[x] # 0

\* TetrisBoard._clear_full_lines: the full rows are deleted and as many empty
\* rows inserted on top; the grid left and the number of rows cleared.
clear_full_lines(grid) ==
    LET kept == SelectSeq(grid, LAMBDA row : ~IsFull(row))
        n == BOARD_HEIGHT - Len(kept)
    IN [grid |-> [y \in 1 .. n |-> EmptyRow] \o kept, lines_cleared |-> n]

\* TetrisBoard._calculate_score
calculate_score(lines_cleared) ==
    LET scores == <<0, 40, 100, 300, 1200>>
    IN scores[(IF lines_cleared < 4 THEN lines_cleared ELSE 4) + 1]

\* TetrisBoard.start_falling_piece
start_falling_piece(bs) ==
    IF bs.next_pieces = << >> THEN bs
    ELSE [bs EXCEPT !.falling_piece = [type |-> bs.next_pieces[1],
                                       x |-> (BOARD_WIDTH \div 2) - 2,
                                       y |-> 0,
                                       rotation |-> 0],
                    !.current_player_piece = bs.next_pieces[1]]

\* TetrisBoard._place_falling_piece; `gen` is the piece _generate_next_piece
\* draws for the queue.
place_falling_piece(bs, gen) ==
    IF bs.falling_piece = NoPiece THEN bs
    ELSE LET piece == bs.falling_piece
             shape == PIECES[piece.type][piece.rotation + 1]
         IN IF ~can_place_piece(bs.grid, shape, piece.x, piece.y)
            THEN [bs EXCEPT !.top_out = TRUE]
            ELSE LET marked == [y \in 1 .. BOARD_HEIGHT |->
                                  [x \in 1 .. BOARD_WIDTH |->
                                     IF <<x - 1 - piece.x, y - 1 - piece.y>> \in shape
                                     THEN 3 ELSE bs.grid[y][x]]]
                     cleared == clear_full_lines(marked)
                 IN [bs EXCEPT !.grid = cleared.grid,
                               !.lines_cleared = cleared.lines_cleared,
                               !.next_pieces = Append(IF @ = << >> THEN @ ELSE Tail(@), gen),
                               !.falling_piece = NoPiece,
                               !.current_player_piece = "none"]

\* TetrisBoard.move_falling_piece
move_falling_piece(bs, direction, gen) ==
    IF bs.falling_piece = NoPiece THEN bs
    ELSE LET piece == bs.falling_piece
             new_piece ==
                 IF direction = "left" THEN [piece EXCEPT !.x = @ - 1]
                 ELSE IF direction = "right" THEN [piece EXCEPT !.x = @ + 1]
                 ELSE IF direction = "down" THEN [piece EXCEPT !.y = @ + 1]
                 ELSE IF direction = "rotate"
                 THEN [piece EXCEPT !.rotation = (@ + 1) % 4]
                 ELSE piece
         IN IF can_place_falling_piece(bs.grid, new_piece)
            THEN [bs EXCEPT !.falling_piece = new_piece]
            ELSE IF direction = "down" THEN place_falling_piece(bs, gen)
            ELSE bs

\* ------------------------------------------------- falling-piece game logic
\* TetrisGame.initialize_game followed by the assignments of
\* TetrisGameEngine.create_game: the session starts in status playing with a
\* falling piece.
tetris_create_game(tc, first, piece) ==
    [game_type |-> "tetris",
     status |-> "playing",
     current_player |-> first,
     board_state |-> start_falling_piece(tetris_initialize_board(piece)),
     time_remaining |-> [i \in Slots |-> tc.increment],
     winner |-> None,
     moves_history |-> << >>,
     first_move_timer |-> None,
     first_move_player |-> None,
     rated |-> TRUE,
     disconnect_timer |-> None,
     disconnected_player |-> None]

\* TetrisGame._get_piece_bounds, as <<min_x, max_x, min_y, max_y>>
get_piece_bounds(piece_shape) ==
    LET xs == {c[1] : c \in piece_shape}
        ys == {c[2] : c \in piece_shape}
    IN <<SetMin(xs), 0 - SetMin({0 - x : x \in xs}),
         SetMin(ys), 0 - SetMin({0 - y : y \in ys})>>

\* TetrisGame._has_valid_moves
has_valid_moves(bs, piece_type) ==
    \E rotation \in 0 .. 3 :
        LET piece_shape == PIECES[piece_type][rotation + 1]
            b == get_piece_bounds(piece_shape)
            actual_width == b[2] - b[1] + 1
            actual_height == b[4] - b[3] + 1
        IN \E x \in 0 .. (BOARD_WIDTH - actual_width) :
              \E y \in 0 .. (BOARD_HEIGHT - actual_height) :
                 can_place_piece(bs.grid, piece_shape, x, y)

\* TetrisGame._can_player_make_move
can_player_make_move(bs) ==
    /\ bs.next_pieces # << >>
    /\ has_valid_moves(bs, bs.next_pieces[1])

\* The turn change both branches of TetrisGame.process_move end with: the
\* turn passes, and the session is finished in favour of the slot the turn
\* passed to when that slot has no placement left.
tetris_pass_turn(g) ==
    LET next_player == Opponent(g.current_player)
        passed == [g EXCEPT !.current_player = next_player]
    IN IF ~can_player_make_move(passed.board_state)
       THEN [passed EXCEPT !.winner = passed.current_player, !.status = "finished"]
       ELSE [passed EXCEPT !.board_state = start_falling_piece(@)]

\* The loop of the lock action: the piece moves down until it is placed or
\* the board reports a top-out.
RECURSIVE lock_drop(_, _)
lock_drop(bs, gen) ==
    IF bs.falling_piece = NoPiece THEN bs
    ELSE LET moved == move_falling_piece(bs, "down", gen)
         IN IF moved.top_out THEN moved ELSE lock_drop(moved, gen)

\* TetrisGame.process_move: <<new_state, valid>> as a record.
tetris_logic_process_move(g, move, player_id, gen) ==
    IF player_id # g.current_player
    THEN [state |-> g, valid |-> FALSE]
    ELSE IF move.action = "move"
    THEN IF move.direction \in {"left", "right", "down", "rotate"}
         THEN LET moved == [g EXCEPT !.board_state =
                               move_falling_piece(@, move.direction, gen)]
              IN IF move.direction = "down" /\ moved.board_state.falling_piece = NoPiece
                 THEN [state |-> tetris_pass_turn(moved), valid |-> TRUE]
                 ELSE [state |-> moved, valid |-> TRUE]
         ELSE [state |-> g, valid |-> FALSE]
    ELSE IF move.action = "lock"
    THEN LET dropped == lock_drop(g.board_state, gen)
         IN IF g.board_state.falling_piece # NoPiece /\ dropped.top_out
            THEN [state |-> [g EXCEPT !.board_state = dropped,
                                      !.winner = Opponent(g.current_player),
                                      !.status = "finished"],
                  valid |-> TRUE]
            ELSE LET scored ==
                        IF dropped.lines_cleared # None /\ dropped.lines_cleared > 0
                        THEN [dropped EXCEPT !.scores[g.current_player] =
                                  @ + calculate_score(dropped.lines_cleared)]
                        ELSE dropped
                 IN [state |-> tetris_pass_turn([g EXCEPT !.board_state = scored]),
                     valid |-> TRUE]
    ELSE [state |-> g, valid |-> FALSE]

\* GameMove as TetrisGameEngine.process_move records it.
tetris_GameMove(player_id, move_data, g) ==
    [player_id |-> player_id,
     move_data |-> move_data,
     board_state_after |-> g.board_state,
     time_remaining_after |-> g.time_remaining]

\* TetrisGameEngine.process_move on the registered object g: the value
\* returned and the object registered in active_games afterwards.
tetris_engine_process_move(g, player_id, move, tc, gen) ==
    LET r == tetris_logic_process_move(g, move, player_id, gen)
        new == r.state
    IN IF ~r.valid THEN [valid |-> FALSE, stored |-> g]
       ELSE IF new.current_player # g.current_player
       THEN [valid |-> TRUE,
             stored |-> [new EXCEPT
                 !.moves_history = Append(@, tetris_GameMove(player_id, move, new)),
                 !.time_remaining[new.current_player] = tc.increment]]
       ELSE [valid |-> TRUE, stored |-> new]

\* ----------------------------------------------- falling-piece game session
\* The pieces a bag draw yields here: the first TetrisBagSize of the seven
\* (a fresh TetrisBoard shuffles a fresh bag, so a draw can yield any piece).
PieceOrder == <<"O", "I", "T", "S", "Z", "J", "L">>

TetrisBag == {PieceOrder[i] : i \in 1 .. TetrisBagSize}

\* The messages a client of a falling-piece session submits: the soft drop,
\* the lock, a movement with an unknown direction and an unknown action.
TetrisMoves ==
    {[action |-> "move", direction |-> d] : d \in {"down", "up"}}
    \cup {[action |-> "lock", direction |-> "none"],
          [action |-> "hold", direction |-> "none"]}

\* Pieces placed on the grid so far (four cells each, no line cleared yet).
PiecesPlaced(g) ==
    Cardinality({c \in (1 .. BOARD_HEIGHT) \X (1 .. BOARD_WIDTH) :
                    g.board_state.grid[c[1]][c[2]] # 0}) \div 4

InitTetris ==
    /\ SessionOnlyInit
    /\ time_control = [initial_time |-> 0, increment |-> TetrisIncrement]
    /\ \E first \in Slots : \E piece \in TetrisBag :
          active_games = tetris_create_game(time_control, first, piece)
    /\ finished_games = NoGame
    /\ pc = "loop"
    /\ stale = FALSE
    /\ tgs = NoGame
    /\ conns = {}
    /\ reply = ""

\* Positions of TetrisGameEngine._game_timer at its awaits of
\* broadcast_state: after a top-out, after a turn change, after a clock
\* expiry, and at the end of an iteration.
TetrisSuspended == {"t_bcast_topout", "t_bcast_turn", "t_bcast_timeout", "t_bcast_state"}

\* websocket_endpoint, action == 'move', for a session of the falling-piece
\* engine, with the call of TetrisGameEngine.process_move it makes.
TetrisClientMove(slot, move, gen) ==
    /\ SessionOnly
    /\ slot \in conns
    /\ active_games # NoGame
    /\ active_games.status \in {"first_move", "playing", "disconnect_wait"}
    /\ PiecesPlaced(active_games) < TetrisMaxPlaced
    /\ LET r == tetris_engine_process_move(active_games, slot, move, time_control, gen)
       IN IF r.valid
          THEN /\ active_games' = r.stored
               /\ IF pc \in TetrisSuspended /\ ~stale
                  THEN stale' = TRUE /\ tgs' = active_games
                  ELSE UNCHANGED <<stale, tgs>>
               /\ reply' = ""
          ELSE /\ reply' = "invalid move"
               /\ UNCHANGED <<active_games, stale, tgs>>
    /\ UNCHANGED <<time_control, finished_games, pc, conns>>

\* _game_timer of the falling-piece engine, from the spawn to the turn
\* change: the state reached and which of its awaits follows.
tetris_gravity(g, tc, gen) ==
    LET spawned == IF g.board_state.falling_piece = NoPiece
                   THEN start_falling_piece(g.board_state)
                   ELSE g.board_state
        moved == move_falling_piece(spawned, "down", gen)
    IN IF spawned.falling_piece = NoPiece
       THEN [state |-> [g EXCEPT !.board_state = spawned], outcome |-> "none"]
       ELSE IF moved.top_out
       THEN [state |-> [g EXCEPT !.board_state = moved,
                                 !.winner = Opponent(g.current_player),
                                 !.status = "finished"],
             outcome |-> "top_out"]
       ELSE IF moved.falling_piece = NoPiece
       THEN LET scored ==
                    IF moved.lines_cleared # None /\ moved.lines_cleared > 0
                    THEN [moved EXCEPT !.scores[g.current_player] =
                              @ + calculate_score(moved.lines_cleared)]
                    ELSE moved
                next_player == Opponent(g.current_player)
            IN [state |-> [g EXCEPT !.current_player = next_player,
                                    !.time_remaining[next_player] = tc.increment,
                                    !.board_state = start_falling_piece(scored)],
                outcome |-> "turn"]
       ELSE [state |-> [g EXCEPT !.board_state = moved], outcome |-> "none"]

\* The move clock of the same loop: the on-turn slot's clock loses a second
\* while a piece falls, and its expiry ends the session.
tetris_clock(g) ==
    IF g.board_state.falling_piece = NoPiece THEN g
    ELSE LET t == [g EXCEPT !.time_remaining[g.current_player] = @ - 1]
         IN IF t.time_remaining[t.current_player] <= 0
            THEN [t EXCEPT !.winner = Opponent(t.current_player), !.status = "finished"]
            ELSE t

TetrisTickClock(g) ==
    /\ TickStore(tetris_clock(g))
    /\ pc' = IF tetris_clock(g).status = "finished" /\ g.status # "finished"
             THEN "t_bcast_timeout" ELSE "t_bcast_state"

\* One iteration from the top of the loop to its first await.
TetrisTickLoop ==
    /\ SessionOnly
    /\ pc = "loop"
    /\ reply' = ""
    /\ UNCHANGED <<time_control, conns>>
    /\ IF active_games = NoGame
       THEN pc' = "done" /\ UNCHANGED <<active_games, finished_games, stale, tgs>>
       ELSE IF active_games.game_type = "tetris" /\ active_games.status = "playing"
       THEN \E gen \in TetrisBag :
               LET r == tetris_gravity(active_games, time_control, gen)
               IN IF r.outcome = "top_out"
                  THEN TickStore(r.state) /\ pc' = "t_bcast_topout"
                  ELSE IF r.outcome = "turn"
                  THEN TickStore(r.state) /\ pc' = "t_bcast_turn"
                  ELSE TetrisTickClock(r.state)
       ELSE /\ pc' = "t_bcast_state"
            /\ UNCHANGED <<active_games, finished_games, stale, tgs>>

\* The task resumes after the broadcast that follows a turn change.
TetrisTickAfterTurn ==
    /\ SessionOnly
    /\ pc = "t_bcast_turn"
    /\ reply' = ""
    /\ UNCHANGED <<time_control, conns>>
    /\ TetrisTickClock(TickState)

\* The task resumes after the broadcast of a top-out or of a clock expiry.
TetrisTickAfterFinish ==
    /\ SessionOnly
    /\ pc \in {"t_bcast_topout", "t_bcast_timeout"}
    /\ reply' = ""
    /\ UNCHANGED <<time_control, conns>>
    /\ cleanup_finished_game(TickState)

\* The task resumes after the broadcast that ends an iteration.
TetrisTickAfterState ==
    /\ SessionOnly
    /\ pc = "t_bcast_state"
    /\ reply' = ""
    /\ UNCHANGED <<time_control, conns>>
    /\ TickConclude(TickState)

TetrisTick ==
    \/ TetrisTickLoop
    \/ TetrisTickAfterTurn
    \/ TetrisTickAfterFinish
    \/ TetrisTickAfterState

NextTetris ==
    \/ \E slot \in Slots : MoveRefused(slot)
    \/ \E slot \in Slots : \E move \in TetrisMoves : \E gen \in TetrisBag :
          TetrisClientMove(slot, move, gen)
    \/ \E slot \in Slots : Join(slot)
    \/ \E slot \in Slots : Leave(slot)
    \/ TetrisTick

SpecTetris == InitTetris /\ [][NextTetris]_vars

\* ------------------------------------------------------ matchmaking queue
\* matchmaking.py.  A WaitingPlayer is a record of its fields; pools, a
\* dict, is the sequence of its items in insertion order, which is the
\* order leave_pool and matchmaking_loop walk it in.
MATCH_THRESHOLD == 150

MaxJoins == 4
NUsers == 2

Users == 1..NUsers
Ratings == {1500, 1600, 1620, 1700}

\* What a client may ask to queue for: game type, time control, rated.
QueueChoices == {<<"pentago", "5+3", TRUE>>, <<"tetris", "0+30", FALSE>>}

make_pool_key(game_type, time_control_str, rated) ==
    game_type \o "_" \o time_control_str \o "_" \o (IF rated THEN "rated" ELSE "casual")

WaitingPlayer(user_id, rating, choice, joined_at) ==
    [user_id |-> user_id, rating |-> rating, game_type |-> choice[1],
     time_control |-> choice[2], rated |-> choice[3], joined_at |-> joined_at]

Abs(x) == IF x < 0 THEN 0 - x ELSE x

\* pool_key in pools, and pools[pool_key]
HasPool(ps, pool_key) == \E i \in 1..Len(ps) : ps[i].key = pool_key

PoolIndex(ps, pool_key) == CHOOSE i \in 1..Len(ps) : ps[i].key = pool_key

PoolOf(ps, pool_key) ==
    IF HasPool(ps, pool_key) THEN ps[PoolIndex(ps, pool_key)].players ELSE << >>

\* pools[pool_key] = players
SetPool(ps, pool_key, players) ==
    IF HasPool(ps, pool_key)
    THEN [ps EXCEPT ![PoolIndex(ps, pool_key)].players = players]
    ELSE Append(ps, [key |-> pool_key, players |-> players])

\* del pools[pool_key]
DelPool(ps, pool_key) == SelectSeq(ps, LAMBDA e : e.key # pool_key)

\* An insertion that puts every entry at the end of the pool.
insert_sorted_at_end(players, player) == Append(players, player)

\* lines 43-50 of join_pool: the entry goes before the first one that has
\* a higher rating, or the same rating and a later joined_at.
insert_sorted(players, player) ==
    LET later == {i \in 1..Len(players) :
                     \/ players[i].rating > player.rating
                     \/ /\ players[i].rating = player.rating
                        /\ players[i].joined_at > player.joined_at}
    IN IF later = {}
       THEN Append(players, player)
       ELSE LET i == SetMin(later)
            IN SubSeq(players, 1, i - 1) \o <<player>> \o SubSeq(players, i, Len(players))

\* lines 70-77 of try_match: the index of the first adjacent pair whose gap
\* is strictly below every gap before it, in a pool of two or more; here
\* with ties going to the last such pair.
closest_pair_last(players) ==
    LET diff(i) == Abs(players[i].rating - players[i + 1].rating)
        min_diff == SetMin({diff(i) : i \in 1..(Len(players) - 1)})
        at == CHOOSE i \in 1..(Len(players) - 1) :
                 /\ diff(i) = min_diff
                 /\ \A j \in 1..(Len(players) - 1) : diff(j) = min_diff => j <= i
    IN [min_diff |-> min_diff, pair |-> <<players[at], players[at + 1]>>]

\* lines 70-77 of try_match: min_diff and pair after the scan of a pool of
\* two or more entries.  A later pair replaces the one held only when its
\* gap is strictly smaller.
closest_pair(players) ==
    LET diff(i) == Abs(players[i].rating - players[i + 1].rating)
        min_diff == SetMin({diff(i) : i \in 1..(Len(players) - 1)})
        at == SetMin({i \in 1..(Len(players) - 1) : diff(i) = min_diff})
    IN [min_diff |-> min_diff, pair |-> <<players[at], players[at + 1]>>]

\* A threshold test that lets every gap through.
within_threshold_any(min_diff) == min_diff >= 0

\* line 78: the threshold test.
within_threshold(min_diff) == min_diff <= MATCH_THRESHOLD

\* A removal that takes only the lower entry of the pair out of the pool.
remove_pair_lower_only(players, pair) ==
    SelectSeq(players, LAMBDA p : p # pair[1])

\* line 81: the pool without the entries equal to one of the pair.
remove_pair(players, pair) ==
    SelectSeq(players, LAMBDA p : p # pair[1] /\ p # pair[2])

\* try_match: the pair found, << >> for None, and pools after the call.
try_match(ps, pool_key) ==
    IF ~HasPool(ps, pool_key) \/ Len(PoolOf(ps, pool_key)) < 2
    THEN [pools |-> ps, pair |-> << >>]
    ELSE LET players == PoolOf(ps, pool_key)
             found == closest_pair(players)
         IN IF within_threshold(found.min_diff)
            THEN [pools |-> SetPool(ps, pool_key, remove_pair(players, found.pair)),
                  pair |-> found.pair]
            ELSE [pools |-> ps, pair |-> << >>]

\* create_matched_game: the session is registered by create_game before
\* the first await.
create_matched_game(gs, pair) == IF pair = << >> THEN gs ELSE Append(gs, pair)

\* join_pool with try_match_immediately.
join_pool(ps, player) ==
    LET pool_key == make_pool_key(player.game_type, player.time_control, player.rated)
        queued == SetPool(ps, pool_key, insert_sorted(PoolOf(ps, pool_key), player))
    IN try_match(queued, pool_key)

\* leave_pool from the i-th item of the dict on: every pool walked loses the
\* participant's entries, and the walk ends at the first pool found empty,
\* which is deleted.
RECURSIVE leave_pool_from(_, _, _)
leave_pool_from(ps, i, user_id) ==
    IF i > Len(ps)
    THEN ps
    ELSE LET kept == SelectSeq(ps[i].players, LAMBDA p : p.user_id # user_id)
         IN IF kept = << >>
            THEN DelPool(ps, ps[i].key)
            ELSE leave_pool_from([ps EXCEPT ![i].players = kept], i + 1, user_id)

leave_pool(ps, user_id) == leave_pool_from(ps, 1, user_id)

\* One wake-up of matchmaking_loop over the keys listed at line 101.
RECURSIVE sweep_from(_, _)
sweep_from(st, keys) ==
    IF keys = << >>
    THEN st
    ELSE LET r == try_match(st.pools, Head(keys))
         IN sweep_from([pools |-> r.pools, games |-> create_matched_game(st.games, r.pair)],
                       Tail(keys))

PoolKeys(ps) == [i \in 1..Len(ps) |-> ps[i].key]

SessionIdle ==
    /\ time_control = [initial_time |-> 0, increment |-> 0]
    /\ active_games = NoGame
    /\ finished_games = NoGame
    /\ pc = "done"
    /\ stale = FALSE
    /\ tgs = NoGame
    /\ conns = {}
    /\ reply = ""

SessionUntouched ==
    UNCHANGED <<time_control, active_games, finished_games, pc, stale, tgs, conns, reply>>

\* The queue's handlers touch neither a session nor its connections.
QueueOnly == SessionUntouched /\ BroadcastUntouched /\ UNCHANGED log /\ OtherUntouched

InitMatch == SessionIdle /\ NoQueue /\ NoBroadcast /\ log = << >> /\ NoOther

\* The join_pool message of matchmaking_websocket.
JoinPool(user_id, rating, choice) ==
    /\ joins < MaxJoins
    /\ joins' = joins + 1
    /\ LET r == join_pool(pools, WaitingPlayer(user_id, rating, choice, joins + 1))
       IN /\ pools' = r.pools
          /\ games' = create_matched_game(games, r.pair)
    /\ last' = <<"join_pool", user_id>>
    /\ QueueOnly

\* The leave_pool message, or the disconnection of the queue's websocket.
LeavePool(user_id) ==
    /\ pools' = leave_pool(pools, user_id)
    /\ last' = <<"leave_pool", user_id>>
    /\ UNCHANGED <<games, joins>>
    /\ QueueOnly

\* matchmaking_loop wakes up.
Sweep ==
    /\ LET r == sweep_from([pools |-> pools, games |-> games], PoolKeys(pools))
       IN pools' = r.pools /\ games' = r.games
    /\ last' = <<"matchmaking_loop">>
    /\ UNCHANGED joins
    /\ QueueOnly

NextMatch ==
    \/ \E user_id \in Users : \E rating \in Ratings : \E choice \in QueueChoices :
          JoinPool(user_id, rating, choice)
    \/ \E user_id \in Users : LeavePool(user_id)
    \/ Sweep

SpecMatch == InitMatch /\ [][NextMatch]_vars

\* ------------------------------------------------ broadcast to a session
\* game_state.py 18-71.  game_connections[game_id] is a dict: `entries` is
\* its entry table in insertion order, a deleted key leaves None in its
\* place, a new key is appended, and `present` is FALSE when game_id is not
\* a key of game_connections.  A frame is one call of broadcast_to_game: the
\* dict iterator of line 28 (pos, di_used), the pair it handed out last
\* (to, and whether that websocket fails), the local list disconnected, and
\* orphan, TRUE when the dict it iterates has been deleted from
\* game_connections.  "tick" is the call made by a timer task, "handler" the
\* one made by handle_player_join or handle_player_leave.
MaxEntries == 4

Live(entries) == {i \in 1..Len(entries) : entries[i] # None}

Connected(gc) == {gc.entries[i] : i \in Live(gc.entries)}

\* len() of the dict
Used(gc) == Cardinality(Live(gc.entries))

\* add_player_to_game
add_player_to_game(gc, user_id) ==
    IF ~gc.present
    THEN [present |-> TRUE, entries |-> <<user_id>>]
    ELSE IF user_id \in Connected(gc)
    THEN gc
    ELSE [gc EXCEPT !.entries = Append(@, user_id)]

\* del game_connections[game_id][user_id]
DelEntry(gc, user_id) ==
    [gc EXCEPT !.entries = [i \in 1..Len(@) |-> IF @[i] = user_id THEN None ELSE @[i]]]

\* lines 39-40 and 69-70: an empty dict is deleted from game_connections.
DropIfEmpty(gc) == IF gc.present /\ Used(gc) = 0 THEN NoConnections ELSE gc

\* remove_player_from_game
remove_player_from_game(gc, user_id) ==
    IF gc.present /\ user_id \in Connected(gc)
    THEN DropIfEmpty(DelEntry(gc, user_id))
    ELSE gc

\* The for statement of line 28 asks the iterator for the next item: the
\* iterator raises RuntimeError when the dict's size is not the size it
\* started with, hands out the next live entry, or is exhausted.
iter_next(gc, f) ==
    IF f.orphan \/ Used(gc) # f.di_used
    THEN "raise"
    ELSE IF {i \in Live(gc.entries) : i > f.pos} = {}
    THEN "end"
    ELSE "item"

\* lines 36-40: the failed handles are deleted, then the dict if empty.
RECURSIVE drop_disconnected(_, _)
drop_disconnected(gc, disconnected) ==
    IF disconnected = << >>
    THEN gc
    ELSE drop_disconnected(DelEntry(gc, Head(disconnected)), Tail(disconnected))

\* broadcast_to_game from the top of an iteration of its loop to the next
\* suspension (the await of line 30), to its return, or to the exception
\* that leaves it.  bad: the participants whose websocket fails.
run_frame(gc, f, bad) ==
    IF iter_next(gc, f) = "raise"
    THEN [gc |-> gc, outcome |-> "raised", frame |-> IdleFrame]
    ELSE IF iter_next(gc, f) = "item"
    THEN LET i == SetMin({j \in Live(gc.entries) : j > f.pos})
         IN [gc |-> gc, outcome |-> "suspended",
             frame |-> [f EXCEPT !.pc = "send", !.pos = i, !.to = gc.entries[i],
                                 !.fails = gc.entries[i] \in bad]]
    ELSE IF \E k \in 1..Len(f.disconnected) : f.disconnected[k] \notin Connected(gc)
    THEN [gc |-> gc, outcome |-> "raised", frame |-> IdleFrame]
    ELSE [gc |-> DropIfEmpty(drop_disconnected(gc, f.disconnected)),
          outcome |-> "returned", frame |-> IdleFrame]

\* broadcast_to_game is called: line 26, then the loop.
start_frame(gc, bad) ==
    IF ~gc.present
    THEN [gc |-> gc, outcome |-> "returned", frame |-> IdleFrame]
    ELSE run_frame(gc, [IdleFrame EXCEPT !.di_used = Used(gc)], bad)

\* The frames that still iterate a dict that has just been deleted from
\* game_connections.
Orphaned(fs, before, after) ==
    [i \in Issuers |->
        IF fs[i].pc = "send" /\ before.present /\ ~after.present
        THEN [fs[i] EXCEPT !.orphan = TRUE]
        ELSE fs[i]]

\* The timer task after its call of broadcast_state: _game_timer has no
\* exception handler around it.
timer_after(outcome) ==
    IF outcome = "suspended" THEN "broadcasting"
    ELSE IF outcome = "raised" THEN "failed"
    ELSE "sleeping"

BroadcastOnly == SessionUntouched /\ QueueUntouched /\ UNCHANGED log /\ OtherUntouched

InitBroadcast == SessionIdle /\ NoQueue /\ NoBroadcast /\ log = << >> /\ NoOther

\* The timer task wakes up and calls broadcast_state.
TickBroadcast ==
    /\ timer = "sleeping"
    /\ game_connections.present
    /\ LET r == start_frame(game_connections, broken)
       IN /\ game_connections' = r.gc
          /\ frames' = [Orphaned(frames, game_connections, r.gc) EXCEPT !["tick"] = r.frame]
          /\ timer' = timer_after(r.outcome)
          /\ broken' = broken \cap Connected(r.gc)
    /\ BroadcastOnly

\* The send_text a call is suspended on returns or raises, and the call runs
\* on to its next suspension or to its end.
SendReturns(issuer) ==
    /\ frames[issuer].pc = "send"
    /\ LET f == frames[issuer]
           noted == IF f.fails
                    THEN [f EXCEPT !.disconnected = Append(@, f.to)]
                    ELSE [f EXCEPT !.got = @ \cup {f.to}]
           r == run_frame(game_connections, noted, broken)
       IN /\ game_connections' = r.gc
          /\ frames' = [Orphaned(frames, game_connections, r.gc) EXCEPT ![issuer] = r.frame]
          /\ timer' = IF issuer = "tick" THEN timer_after(r.outcome) ELSE timer
          /\ broken' = broken \cap Connected(r.gc)
    /\ BroadcastOnly

\* handle_player_join: add_player_to_game, then broadcast_state.  One
\* client handler is in progress at a time.
PlayerJoin(user_id) ==
    /\ frames["handler"].pc = "idle"
    /\ Len(game_connections.entries) < MaxEntries
    /\ LET added == add_player_to_game(game_connections, user_id)
           r == start_frame(added, broken \ {user_id})
       IN /\ game_connections' = r.gc
          /\ frames' = [Orphaned(frames, added, r.gc) EXCEPT !["handler"] = r.frame]
          /\ broken' = (broken \ {user_id}) \cap Connected(r.gc)
    /\ UNCHANGED timer
    /\ BroadcastOnly

\* handle_player_leave in a session in playing: remove_player_from_game,
\* then broadcast_state when one participant remains connected.
PlayerLeave(user_id) ==
    /\ frames["handler"].pc = "idle"
    /\ game_connections.present
    /\ user_id \in Connected(game_connections)
    /\ LET removed == remove_player_from_game(game_connections, user_id)
           orphaned == Orphaned(frames, game_connections, removed)
           r == IF Used(removed) = 1
                THEN start_frame(removed, broken \ {user_id})
                ELSE [gc |-> removed, outcome |-> "returned", frame |-> IdleFrame]
       IN /\ game_connections' = r.gc
          /\ frames' = [Orphaned(orphaned, removed, r.gc) EXCEPT !["handler"] = r.frame]
          /\ broken' = (broken \ {user_id}) \cap Connected(r.gc)
    /\ UNCHANGED timer
    /\ BroadcastOnly

\* The network connection of a connected participant goes away.
ConnectionLost(user_id) ==
    /\ game_connections.present
    /\ user_id \in Connected(game_connections) \ broken
    /\ broken' = broken \cup {user_id}
    /\ UNCHANGED <<game_connections, frames, timer>>
    /\ BroadcastOnly

NextBroadcast ==
    \/ TickBroadcast
    \/ \E issuer \in Issuers : SendReturns(issuer)
    \/ \E user_id \in Slots : PlayerJoin(user_id)
    \/ \E user_id \in Slots : PlayerLeave(user_id)
    \/ \E user_id \in Slots : ConnectionLost(user_id)

SpecBroadcast == InitBroadcast /\ [][NextBroadcast]_vars

\* ------------------------------------------------- end of a session
\* GameEngine._cleanup_finished_game (game_engine.py 102-172) for a session
\* between two authenticated participants, as called by the timer task that
\* finds the session finished.  pc is the await the task stands at: the
\* save of the game for slot 0 and 1 (_auto_save_finished_game), the
\* clear_active_game for slot 0 and 1, the rating update; log lists the
\* calls made and how each ended.
CleanupPositions == {"save0", "save1", "clear0", "clear1", "ratings"}

\* A finished session as the rules or a forfeit leave it: won by a slot, or
\* drawn (winner None).
FinishedGames ==
    {[initialize_game([initial_time |-> InitialTime, increment |-> Increment], first)
         EXCEPT !.status = "finished", !.winner = winner, !.rated = rated] :
     first \in Slots, winner \in Slots \cup {None}, rated \in BOOLEAN}

\* lines 131-135: winner_code
winner_code(g) ==
    IF g.winner = 0 THEN 1
    ELSE IF g.winner = 1 THEN 2
    ELSE 0

\* line 125
ratings_due(g) == g.rated /\ g.winner # None

\* The position after the save for a slot, were the exception of a failed
\* save to leave _auto_save_finished_game.
after_save_uncaught(position, ok) ==
    IF ~ok THEN "failed"
    ELSE IF position = "save0" THEN "save1" ELSE "clear0"

\* lines 184-243: the save for a slot is inside try/except; the loop goes
\* on to the next slot, then the clearing starts.
after_save(position, ok) ==
    IF position = "save0" THEN "save1" ELSE "clear0"

\* lines 116-122 and 125: clear_active_game catches what goes wrong in it and
\* returns False (user_active_game_repository.py 51-64), and its result is
\* not looked at; after the second one the rating update follows if it is
\* due.
after_clear(position, ok, g) ==
    IF position = "clear0" THEN "clear1"
    ELSE IF ratings_due(g) THEN "ratings"
    ELSE "done"

CleanupOnly == QueueUntouched /\ BroadcastUntouched /\ OtherUntouched

InitCleanup ==
    /\ NoQueue /\ NoBroadcast
    /\ time_control = [initial_time |-> InitialTime, increment |-> Increment]
    /\ active_games \in FinishedGames
    /\ finished_games = NoGame
    /\ pc = "loop"
    /\ stale = FALSE
    /\ tgs = NoGame
    /\ conns = Slots
    /\ reply = ""
    /\ log = << >>
    /\ NoOther

\* lines 105-113, up to the first await of the saves.
CleanupStart ==
    /\ pc = "loop"
    /\ active_games # NoGame
    /\ active_games.status = "finished"
    /\ finished_games' = active_games
    /\ active_games' = NoGame
    /\ pc' = "save0"
    /\ reply' = ""
    /\ UNCHANGED <<time_control, stale, tgs, conns, log>>
    /\ CleanupOnly

\* create_saved_game and add_game_move for a slot return or raise.
SaveGame(ok) ==
    /\ pc \in {"save0", "save1"}
    /\ log' = Append(log, <<"save", IF pc = "save0" THEN 0 ELSE 1, ok>>)
    /\ pc' = after_save(pc, ok)
    /\ reply' = ""
    /\ UNCHANGED <<time_control, active_games, finished_games, stale, tgs, conns>>
    /\ CleanupOnly

\* clear_active_game for a slot returns or raises.
ClearActiveGame(ok) ==
    /\ pc \in {"clear0", "clear1"}
    /\ log' = Append(log, <<"clear", IF pc = "clear0" THEN 0 ELSE 1, ok>>)
    /\ pc' = after_clear(pc, ok, finished_games)
    /\ reply' = ""
    /\ UNCHANGED <<time_control, active_games, finished_games, stale, tgs, conns>>
    /\ CleanupOnly

\* lines 153-168: update_ratings_after_game returns or raises inside
\* try/except; then line 171 and the break of the timer loop.
UpdateRatings(ok) ==
    /\ pc = "ratings"
    /\ log' = Append(log, <<"ratings", winner_code(finished_games), ok>>)
    /\ pc' = "done"
    /\ reply' = ""
    /\ UNCHANGED <<time_control, active_games, finished_games, stale, tgs, conns>>
    /\ CleanupOnly

\* _cleanup_finished_game_after_delay, created at line 171.
CleanupAfterDelay ==
    /\ pc = "done"
    /\ finished_games # NoGame
    /\ finished_games' = NoGame
    /\ reply' = ""
    /\ UNCHANGED <<time_control, active_games, pc, stale, tgs, conns, log>>
    /\ CleanupOnly

NextCleanup ==
    \/ CleanupStart
    \/ \E ok \in BOOLEAN : SaveGame(ok)
    \/ \E ok \in BOOLEAN : ClearActiveGame(ok)
    \/ \E ok \in BOOLEAN : UpdateRatings(ok)
    \/ CleanupAfterDelay
    \/ \E slot \in Slots : MoveRefused(slot)

SpecCleanup == InitCleanup /\ [][NextCleanup]_vars

\* ------------------------------------------------ one connection at a time
\* The session when no two participants are ever connected together:
\* handle_player_join runs only while nobody is connected.  The branch of
\* _game_timer that counts a reconnection delay down is not reached then.
LoneJoin(slot) ==
    /\ conns = {}
    /\ Join(slot)

NextLone ==
    \/ \E slot \in Slots : MoveRefused(slot)
    \/ \E slot \in Slots : \E move \in SubmittedMoves(slot) : ClientMove(slot, move, MaxMoves)
    \/ \E slot \in Slots : LoneJoin(slot)
    \/ \E slot \in Slots : Leave(slot)
    \/ TickLoop
    \/ TickAfterFirstMove
    \/ TickAfterClock
    \/ TickAfterTimeout

SpecLone == Init /\ [][NextLone]_vars

\* ------------------------------------------------------------ bot opponent
\* A session of the rotating-board game whose slot 1 is a bot
\* (is_bot_player: the user_id starts with "bot_").  The bot has no
\* websocket; its moves come from schedule_bot_move tasks, each created by
\* GameEngine.process_move after a valid move that leaves the turn with the
\* bot (lines 320-325).
MaxBotTasks == 2

Bots == {1}

is_bot_player(slot) == slot \in Bots

\* logic.get_valid_moves for the slot on turn, within the moves a
\* participant of that slot plays (ClientMoves).
get_valid_moves(g) ==
    {move \in ClientMoves(g.grid, g.current_player) : is_valid_move(g.grid, move)}

\* The state a woken task acts on: the task's own argument.
latest_state_captured(task) == task

\* The state a woken task acts on: selected_engine.get_game_state(game_id),
\* line 281; the argument the task was created with is not read.
latest_state(task) == get_game_state

\* Lines 282-292: the task goes on to select a move.
bot_goes_on(latest) ==
    /\ latest # NoGame
    /\ latest.status \in {"first_move", "playing", "disconnect_wait"}
    /\ is_bot_player(latest.current_player)

\* Lines 320-325 of GameEngine.process_move after a valid move.
schedule_bot(tasks, new_state) ==
    IF is_bot_player(new_state.current_player)
    THEN Append(tasks, new_state)
    ELSE tasks

RemoveAt(q, i) == SubSeq(q, 1, i - 1) \o SubSeq(q, i + 1, Len(q))

BotOnly ==
    /\ QueueUntouched /\ BroadcastUntouched
    /\ UNCHANGED <<log, grace, recovery, match_ws>>

\* GameEngine.process_move called with (player_id, move) while `tasks` are
\* asleep: the registry, the timer task's view and the tasks afterwards.
bot_session_process_move(player_id, move, tasks) ==
    IF active_games = NoGame
    THEN /\ UNCHANGED <<active_games, stale, tgs>>
         /\ bot_tasks' = tasks
    ELSE LET r == engine_process_move(active_games, player_id, move, time_control)
         IN IF r.valid
            THEN /\ active_games' = r.stored
                 /\ IF pc \in Suspended /\ ~stale
                    THEN stale' = TRUE /\ tgs' = active_games
                    ELSE UNCHANGED <<stale, tgs>>
                 /\ bot_tasks' = schedule_bot(tasks, r.stored)
            ELSE /\ UNCHANGED <<active_games, stale, tgs>>
                 /\ bot_tasks' = tasks

\* The move message of the human participant (api/games.py 109-146) in a
\* session with a bot.
HumanMove(slot, move) ==
    /\ BotOnly
    /\ slot \in conns
    /\ active_games # NoGame
    /\ active_games.status \in {"first_move", "playing", "disconnect_wait"}
    /\ MovesMade(active_games) < MaxMoves
    /\ Len(bot_tasks) < MaxBotTasks
    /\ move \in ClientMoves(active_games.grid, slot)
    /\ bot_session_process_move(slot, move, bot_tasks)
    /\ reply' = IF engine_process_move(active_games, slot, move, time_control).valid
                THEN "" ELSE "invalid move"
    /\ UNCHANGED <<time_control, finished_games, pc, conns>>

\* schedule_bot_move from the end of its sleep (line 279) to its return.
BotWake(i) ==
    /\ BotOnly
    /\ i \in 1 .. Len(bot_tasks)
    /\ active_games # NoGame => MovesMade(active_games) < MaxMoves
    /\ LET latest == latest_state(bot_tasks[i])
           rest == RemoveAt(bot_tasks, i)
       IN IF bot_goes_on(latest) /\ get_valid_moves(latest) # {}
          THEN \E move \in get_valid_moves(latest) :
                   bot_session_process_move(latest.current_player, move, rest)
          ELSE /\ bot_tasks' = rest
               /\ UNCHANGED <<active_games, stale, tgs>>
    /\ reply' = ""
    /\ UNCHANGED <<time_control, finished_games, pc, conns>>

Humans == Slots \ Bots

NextBot ==
    \/ \E slot \in Humans : MoveRefused(slot)
    \/ \E slot \in Humans : \E move \in SubmittedMoves(slot) : HumanMove(slot, move)
    \/ \E slot \in Humans : Join(slot)
    \/ \E slot \in Humans : Leave(slot)
    \/ \E i \in 1 .. MaxBotTasks : BotWake(i)
    \/ TickLoop
    \/ TickAfterFirstMove
    \/ TickAfterClock
    \/ TickAfterTimeout

SpecBot == Init /\ [][NextBot]_vars

\* --------------------------------------- bot opponent, falling-piece game
\* A falling-piece session whose slot 1 is a bot.  A schedule_bot_move task
\* that passes its checks on waking runs _play_tetris_turn with the state
\* and the slot it read then: a plan of movements ended by a lock, each a
\* call of TetrisGameEngine.process_move.  A call that applies its move is
\* suspended in broadcast_state; a call that returns False is not, and the
\* task goes straight on to its next call.
TetrisBotMaxPlaced == 2

\* The plans drawn by lines 325-329: no rotation step, and target_x at the
\* piece's column or one to its left.
TetrisBotPlans ==
    {<<[action |-> "lock", direction |-> "none"]>>,
     <<[action |-> "move", direction |-> "left"],
       [action |-> "lock", direction |-> "none"]>>}

AsleepTask == [pc |-> "asleep", plan |-> << >>, player |-> None, sched |-> FALSE]

\* Lines 238-242 of TetrisGameEngine.process_move, and 316-321 of
\* _game_timer: a task is created when the turn is the bot's.
tetris_schedule_bot(tasks, new_state) ==
    IF is_bot_player(new_state.current_player)
    THEN Append(tasks, AsleepTask)
    ELSE tasks

\* _play_tetris_turn from a call of process_move on: what each call of the
\* plan returns when it finds g registered.  A call that returns False
\* leaves the registry as it was and does not suspend, so the calls up to
\* the first that applies its move all see g.
plan_calls(g, player, plan, gen) ==
    [k \in 1 .. Len(plan) |->
        IF g = NoGame THEN [valid |-> FALSE, stored |-> g]
        ELSE tetris_engine_process_move(g, player, plan[k], time_control, gen)]

\* The registry, the timer task's view and the tasks after such a run by
\* task i: the task is suspended in the broadcast of the first call that
\* applied its move, or has returned.  `tasks` are the tasks before the
\* run, with any task the resumed call of process_move has created.
TetrisBotRun(i, tasks, player, plan, gen) ==
    \E calls \in {plan_calls(active_games, player, plan, gen)} :
        \E applying \in {{k \in 1 .. Len(plan) : calls[k].valid}} :
            IF applying = {}
            THEN /\ bot_tasks' = RemoveAt(tasks, i)
                 /\ UNCHANGED <<active_games, stale, tgs>>
            ELSE \E k \in {SetMin(applying)} :
                    /\ active_games' = calls[k].stored
                    /\ IF pc \in TetrisSuspended /\ ~stale
                       THEN stale' = TRUE /\ tgs' = active_games
                       ELSE UNCHANGED <<stale, tgs>>
                    /\ bot_tasks' = [tasks EXCEPT ![i] =
                           [pc |-> "sending",
                            plan |-> SubSeq(plan, k + 1, Len(plan)),
                            player |-> player,
                            sched |-> is_bot_player(calls[k].stored.current_player)]]

\* The move message of the human participant in a falling-piece session
\* with a bot.
TetrisHumanMove(slot, move, gen) ==
    /\ BotOnly
    /\ slot \in conns
    /\ active_games # NoGame
    /\ active_games.status \in {"first_move", "playing", "disconnect_wait"}
    /\ PiecesPlaced(active_games) < TetrisBotMaxPlaced
    /\ \E r \in {tetris_engine_process_move(active_games, slot, move, time_control, gen)} :
          IF r.valid
          THEN /\ active_games' = r.stored
               /\ IF pc \in TetrisSuspended /\ ~stale
                  THEN stale' = TRUE /\ tgs' = active_games
                  ELSE UNCHANGED <<stale, tgs>>
               /\ bot_tasks' = tetris_schedule_bot(bot_tasks, r.stored)
               /\ reply' = ""
          ELSE /\ reply' = "invalid move"
               /\ UNCHANGED <<active_games, stale, tgs, bot_tasks>>
    /\ Len(bot_tasks') <= MaxBotTasks
    /\ UNCHANGED <<time_control, finished_games, pc, conns>>

\* schedule_bot_move from the end of its sleep to the first suspension of
\* _play_tetris_turn, or to its return.
TetrisBotWake(i, plan, gen) ==
    /\ BotOnly
    /\ i \in 1 .. Len(bot_tasks)
    /\ bot_tasks[i].pc = "asleep"
    /\ active_games # NoGame => PiecesPlaced(active_games) < TetrisBotMaxPlaced
    /\ LET latest == latest_state(bot_tasks[i])
       IN IF bot_goes_on(latest) /\ latest.board_state.falling_piece # NoPiece
          THEN TetrisBotRun(i, bot_tasks, latest.current_player, plan, gen)
          ELSE /\ bot_tasks' = RemoveAt(bot_tasks, i)
               /\ UNCHANGED <<active_games, stale, tgs>>
    /\ reply' = ""
    /\ UNCHANGED <<time_control, finished_games, pc, conns>>

\* The call of process_move resumes after its broadcast: it creates a task
\* when the state it stored has the bot on turn, and returns; the plan
\* goes on.
TetrisBotResume(i, gen) ==
    /\ BotOnly
    /\ i \in 1 .. Len(bot_tasks)
    /\ bot_tasks[i].pc = "sending"
    /\ active_games # NoGame => PiecesPlaced(active_games) < TetrisBotMaxPlaced
    /\ LET task == bot_tasks[i]
           tasks == IF task.sched THEN Append(bot_tasks, AsleepTask) ELSE bot_tasks
       IN TetrisBotRun(i, tasks, task.player, task.plan, gen)
    /\ Len(bot_tasks') <= MaxBotTasks
    /\ reply' = ""
    /\ UNCHANGED <<time_control, finished_games, pc, conns>>

\* The timer task resumes after the broadcast that follows a turn change:
\* lines 316-321, then the move clock.
TetrisBotTickAfterTurn ==
    /\ BotOnly
    /\ pc = "t_bcast_turn"
    /\ bot_tasks' = tetris_schedule_bot(bot_tasks, TickState)
    /\ Len(bot_tasks') <= MaxBotTasks
    /\ reply' = ""
    /\ UNCHANGED <<time_control, conns>>
    /\ TetrisTickClock(TickState)

NextTetrisBot ==
    \/ \E slot \in Humans : MoveRefused(slot)
    \/ \E slot \in Humans : \E move \in TetrisMoves : \E gen \in TetrisBag :
          TetrisHumanMove(slot, move, gen)
    \/ \E slot \in Humans : Join(slot)
    \/ \E slot \in Humans : Leave(slot)
    \/ \E i \in 1 .. MaxBotTasks : \E plan \in TetrisBotPlans : \E gen \in TetrisBag :
          TetrisBotWake(i, plan, gen)
    \/ \E i \in 1 .. MaxBotTasks : \E gen \in TetrisBag : TetrisBotResume(i, gen)
    \/ TetrisTickLoop
    \/ TetrisBotTickAfterTurn
    \/ TetrisTickAfterFinish
    \/ TetrisTickAfterState

SpecTetrisBot == InitTetris /\ [][NextTetrisBot]_vars

\* ------------------------------------------- falling-piece game, piece deal
\* The pieces dealt to a falling-piece session whose participants lock each
\* piece where it spawns, within the first second (before the timer task's
\* first iteration).  Every call of TetrisGameEngine.process_move builds its
\* own TetrisGame, hence its own TetrisBoard, and _generate_next_piece finds
\* no _piece_bag on it: the piece it appends to next_pieces is the last of a
\* newly shuffled bag, any shape.
DealMaxPlaced == 3

LockMove == [action |-> "lock", direction |-> "none"]

DealLock(slot, gen) ==
    /\ SessionOnly
    /\ slot \in conns
    /\ active_games # NoGame
    /\ active_games.status = "playing"
    /\ PiecesPlaced(active_games) < DealMaxPlaced
    /\ \E r \in {tetris_engine_process_move(active_games, slot, LockMove,
                                            time_control, gen)} :
          IF r.valid
          THEN active_games' = r.stored /\ reply' = ""
          ELSE reply' = "invalid move" /\ UNCHANGED active_games
    /\ UNCHANGED <<time_control, finished_games, pc, conns, stale, tgs>>

NextDeal ==
    \/ \E slot \in Slots : Join(slot)
    \/ \E slot \in Slots : \E gen \in TetrisBag : DealLock(slot, gen)

SpecDeal == InitTetris /\ [][NextDeal]_vars

\* ------------------------------------- falling-piece game, the last descent
\* Sessions in which both participants are connected and have locked some
\* pieces within the first second, and the piece then spawned is played:
\* moved by its holder, and taken down by the timer task.
DownMove == [action |-> "move", direction |-> "down"]

RightMove == [action |-> "move", direction |-> "right"]

LeftMove == [action |-> "move", direction |-> "left"]

\* The holder of the turn moves its piece `shift` columns (left when
\* negative): calls of TetrisGameEngine.process_move, none of which draws a
\* piece.
RECURSIVE shifted(_, _, _)
shifted(g, shift, tc) ==
    IF shift = 0 THEN g
    ELSE CHOOSE end \in
            {shifted(moved, IF shift < 0 THEN shift + 1 ELSE shift - 1, tc) :
                moved \in {tetris_engine_process_move(
                               g, g.current_player,
                               IF shift < 0 THEN LeftMove ELSE RightMove, tc,
                               PieceOrder[1]).stored}} : TRUE

\* The holders of the turn, one after the other, shift and lock their
\* pieces; `gen` is the piece drawn at the lock.
RECURSIVE played(_, _, _)
played(g, steps, tc) ==
    IF steps = << >> THEN g
    ELSE played(tetris_engine_process_move(shifted(g, Head(steps).shift, tc),
                                           g.current_player, LockMove, tc,
                                           Head(steps).gen).stored,
                Tail(steps), tc)

\* Two I pieces laid side by side on the floor from the left wall, an O
\* piece spawned: the floor row lacks its last two cells.
ClearScript ==
    [first_piece |-> "I",
     steps |-> <<[shift |-> 0 - 3, gen |-> "I"], [shift |-> 1, gen |-> "O"]>>]

\* O pieces locked where they spawn until their column reaches the top
\* row, an O piece spawned: it overlaps the last one.
StackHeight == BOARD_HEIGHT \div 2

StackScript ==
    [first_piece |-> "O",
     steps |-> [k \in 1 .. StackHeight |-> [shift |-> 0, gen |-> "O"]]]

LockScripts == {ClearScript, StackScript}

InitLock ==
    /\ SessionOnlyInit
    /\ time_control = [initial_time |-> 0, increment |-> TetrisIncrement]
    /\ \E first \in Slots : \E script \in LockScripts :
          active_games = played(tetris_create_game(time_control, first,
                                                   script.first_piece),
                                script.steps, time_control)
    /\ finished_games = NoGame
    /\ pc = "loop"
    /\ stale = FALSE
    /\ tgs = NoGame
    /\ conns = Slots
    /\ reply = ""

\* The piece spawned after the scripted ones is still being played.
LastDescent(g) ==
    PiecesPlaced(g) \in {Len(script.steps) : script \in LockScripts}

LockPhaseMoves == {RightMove, DownMove, LockMove}

\* websocket_endpoint, action == 'move', during that descent.
LockClientMove(slot, move, gen) ==
    /\ SessionOnly
    /\ slot \in conns
    /\ active_games # NoGame
    /\ active_games.status \in {"first_move", "playing", "disconnect_wait"}
    /\ LastDescent(active_games)
    /\ \E r \in {tetris_engine_process_move(active_games, slot, move,
                                            time_control, gen)} :
          IF r.valid
          THEN /\ active_games' = r.stored
               /\ IF pc \in TetrisSuspended /\ ~stale
                  THEN stale' = TRUE /\ tgs' = active_games
                  ELSE UNCHANGED <<stale, tgs>>
               /\ reply' = ""
          ELSE /\ reply' = "invalid move"
               /\ UNCHANGED <<active_games, stale, tgs>>
    /\ UNCHANGED <<time_control, finished_games, pc, conns>>

NextLock ==
    \/ \E slot \in Slots : \E move \in LockPhaseMoves : \E gen \in TetrisBag :
          LockClientMove(slot, move, gen)
    \/ TetrisTickLoop
    \/ TetrisTickAfterTurn
    \/ TetrisTickAfterFinish
    \/ TetrisTickAfterState

SpecLock == InitLock /\ [][NextLock]_vars

\* ------------------------------------------------------------ winner check
\* PentagoBoard.check_winner as PentagoGame.process_move applies it to the
\* board a move has produced (lines 132-143).  The boards are drawn from a
\* family: empty but for the four cells of a window marked by slot 0 and,
\* over them, the four cells of a second window marked by either slot.  The
\* windows are the runs of four cells of the rows, columns and diagonals,
\* as sequences of <<row, column>>.
RowWindow(r, i) == [s \in 0 .. 3 |-> <<r, i + s>>]

ColWindow(c, i) == [s \in 0 .. 3 |-> <<i + s, c>>]

MainWindow(sr, sc) == [s \in 0 .. 3 |-> <<sr + s, sc + s>>]

AntiWindow(sr, sc) == [s \in 0 .. 3 |-> <<sr + s, sc + 3 - s>>]

WindowStarts == 0 .. (BOARD_SIZE - 4)

AllWindows ==
    {RowWindow(r, i) : r \in Cells, i \in WindowStarts}
    \cup {ColWindow(c, i) : c \in Cells, i \in WindowStarts}
    \cup {MainWindow(sr, sc) : sr \in WindowStarts, sc \in WindowStarts}
    \cup {AntiWindow(sr, sc) : sr \in WindowStarts, sc \in WindowStarts}

NoWindow == << >>

CellsOf(w) == {w[s] : s \in DOMAIN w}

\* The board with window wA marked by slot 0 and window wB, over it, by sB.
MarkedBoard(wA, wB, sB) ==
    [y \in Cells |-> [x \in Cells |->
        IF <<y, x>> \in CellsOf(wB) THEN sB
        ELSE IF <<y, x>> \in CellsOf(wA) THEN 0
        ELSE None]]

InitWinner ==
    /\ SessionOnlyInit
    /\ time_control = [initial_time |-> InitialTime, increment |-> Increment]
    /\ \E mover \in Slots : \E wA \in AllWindows \cup {NoWindow} :
          \E wB \in AllWindows \cup {NoWindow} : \E sB \in Slots :
             active_games = [initialize_game(time_control, mover) EXCEPT
                                !.status = "playing",
                                !.grid = MarkedBoard(wA, wB, sB)]
    /\ finished_games = NoGame
    /\ pc = "loop"
    /\ stale = FALSE
    /\ tgs = NoGame
    /\ conns = Slots
    /\ reply = ""

\* Lines 132-143 of PentagoGame.process_move on the board of the move being
\* processed; reply records that the move has been accepted.
SettleTurn ==
    /\ SessionOnly
    /\ reply = ""
    /\ active_games # NoGame
    /\ active_games' = settle_turn(active_games)
    /\ reply' = "accepted"
    /\ UNCHANGED <<time_control, finished_games, pc, stale, tgs, conns>>

NextWinner == SettleTurn

SpecWinner == InitWinner /\ [][NextWinner]_vars

\* ------------------------------------------------- retention of a session
\* The end of a session with the clock of the task created at line 171:
\* grace is the number of seconds _cleanup_finished_game_after_delay has
\* still to sleep, None while no such task exists.
GRACE_SECONDS == 300

GraceOnly ==
    /\ QueueUntouched /\ BroadcastUntouched
    /\ UNCHANGED <<bot_tasks, recovery, match_ws>>

InitGrace ==
    /\ NoQueue /\ NoBroadcast
    /\ time_control = [initial_time |-> InitialTime, increment |-> Increment]
    /\ active_games \in FinishedGames
    /\ finished_games = NoGame
    /\ pc = "loop"
    /\ stale = FALSE
    /\ tgs = NoGame
    /\ conns = {}
    /\ reply = ""
    /\ log = << >>
    /\ NoOther

\* _cleanup_finished_game without its line 171: no task is created.
delay_task_missing(position) == None

\* lines 171 and 250-252: the task is created when _cleanup_finished_game
\* reaches its last line, and starts its sleep.
delay_task(position) == IF position = "done" THEN GRACE_SECONDS ELSE None

\* clear_active_game for a slot returns or raises; after the last one of a
\* session whose ratings are not due, line 171.
GraceClearActiveGame(ok) ==
    /\ pc \in {"clear0", "clear1"}
    /\ log' = Append(log, <<"clear", IF pc = "clear0" THEN 0 ELSE 1, ok>>)
    /\ pc' = after_clear(pc, ok, finished_games)
    /\ grace' = delay_task(pc')
    /\ reply' = ""
    /\ UNCHANGED <<time_control, active_games, finished_games, stale, tgs, conns>>
    /\ GraceOnly

\* update_ratings_after_game returns or raises inside try/except; line 171.
GraceUpdateRatings(ok) ==
    /\ pc = "ratings"
    /\ log' = Append(log, <<"ratings", winner_code(finished_games), ok>>)
    /\ pc' = "done"
    /\ grace' = delay_task(pc')
    /\ reply' = ""
    /\ UNCHANGED <<time_control, active_games, finished_games, stale, tgs, conns>>
    /\ GraceOnly

\* A second of the sleep of _cleanup_finished_game_after_delay goes by.
GraceTick ==
    /\ grace # None
    /\ grace > 0
    /\ grace' = grace - 1
    /\ reply' = ""
    /\ UNCHANGED <<time_control, active_games, finished_games, pc, stale, tgs,
                   conns, log>>
    /\ GraceOnly

\* lines 253-255: the sleep is over, the finished_games entry is deleted
\* and the task ends.
GraceCleanup ==
    /\ grace = 0
    /\ finished_games' = NoGame
    /\ grace' = None
    /\ reply' = ""
    /\ UNCHANGED <<time_control, active_games, pc, stale, tgs, conns, log>>
    /\ GraceOnly

NextGrace ==
    \/ CleanupStart
    \/ \E ok \in BOOLEAN : SaveGame(ok)
    \/ \E ok \in BOOLEAN : GraceClearActiveGame(ok)
    \/ \E ok \in BOOLEAN : GraceUpdateRatings(ok)
    \/ GraceTick
    \/ GraceCleanup
    \/ \E slot \in Slots : Join(slot)

SpecGrace == InitGrace /\ [][NextGrace]_vars

\* The awaits of the cleanup return or raise, the sleep ends: every step of
\* the two tasks is taken once it can be.
GraceTasks ==
    \/ CleanupStart
    \/ \E ok \in BOOLEAN : SaveGame(ok)
    \/ \E ok \in BOOLEAN : GraceClearActiveGame(ok)
    \/ \E ok \in BOOLEAN : GraceUpdateRatings(ok)
    \/ GraceTick
    \/ GraceCleanup

SpecGraceFair == SpecGrace /\ WF_vars(GraceTasks)

\* ----------------------------------------------------- account recovery
\* RecoveryService (services/recovery_service.py) for one user and one
\* client address. The rows of the tables are those the service reads and
\* writes: the user's recovery fields, the RecoveryCode rows, the
\* RecoveryResetToken rows and the RecoveryIPAttempt row. Every call opens
\* its own database session; a statement of one call may be executed
\* between two awaited statements of another. All calls fall within the
\* time windows of the service (no counter is reset and no lock or token
\* expires by the passing of time).
USER_MAX_ATTEMPTS == 5
IP_MAX_ATTEMPTS == 10

\* The calls in progress at once, the calls started in a behaviour, the
\* count passed to generate_codes and the batches generated.
MaxRequests == 2
MaxCalls == 6
CodesCount == 2
MaxBatches == 2

Requests == 1 .. MaxRequests

\* A code the service never generated.
WrongCode == <<0, 0>>

\* _generate_plain_code: the codes of the batch-th batch, in the order
\* drawn; every code is drawn afresh. A code's row has the code's name as
\* its id, so that the first component of the id is the row's batch_id.
plain_codes(batch) == [k \in 1 .. CodesCount |-> <<batch, k>>]

\* pwd_context.hash and pwd_context.verify: the hash keeps the code out
\* of the table and verifies the code it was made from, and no other.
pwd_hash(code) == <<"hash", code>>

pwd_verify(code, code_hash) == code_hash = pwd_hash(code)

\* get_password_hash (core/security.py).
get_password_hash(password) == <<"hash", password>>

NewPasswords == {"NewPassword123", "OtherPassword123"}

\* _create_reset_token and create_setup_token: the payload jwt.encode
\* signs and jwt.decode returns.
create_reset_token(batch_id, code_id, jti) ==
    [type |-> "recovery_reset", sub |-> "alice", batch_id |-> batch_id,
     code_id |-> code_id, jti |-> jti]

create_setup_token ==
    [type |-> "recovery_setup", sub |-> "alice", batch_id |-> 0,
     code_id |-> 0, jti |-> 0]

NoToken == [type |-> "none", sub |-> "", batch_id |-> 0, code_id |-> 0, jti |-> 0]

IdleRequest ==
    [pc |-> "idle", op |-> "", code |-> WrongCode, token |-> NoToken,
     password |-> "", matched |-> WrongCode, failed |-> 0]

\* A user created as the tests create one (password_hash "hash"), with no
\* recovery code yet.
RecoveryStart ==
    [status |-> "present",
     password_hash |-> "hash",
     viewed |-> FALSE,          \* recovery_codes_viewed_at is not None
     failed |-> 0,              \* recovery_failed_attempts
     locked |-> FALSE,          \* recovery_lock_until > now
     codes |-> << >>,           \* RecoveryCode rows: id, batch_id, code_hash, used
     batches |-> 0,             \* the calls of generate_codes committed
     issued |-> {},             \* the plain codes generate_codes returned
     tokens |-> << >>,          \* RecoveryResetToken rows: jti, used
     ip_attempts |-> 0,         \* RecoveryIPAttempt.attempt_count
     ip_locked |-> FALSE,       \* RecoveryIPAttempt.lock_until > now
     requests |-> [q \in Requests |-> IdleRequest],
     calls |-> 0,
     returns |-> << >>]         \* the calls that returned, with their results

\* The same user after confirm_viewed and as many verify_code calls, all
\* failed for want of a code, as leave one attempt before the lock.
RecoveryTried ==
    [RecoveryStart EXCEPT !.viewed = TRUE,
                          !.failed = USER_MAX_ATTEMPTS - 1,
                          !.ip_attempts = USER_MAX_ATTEMPTS - 1]

\* The recovery service touches no session, queue or connection.
RecoveryOnly ==
    /\ SessionUntouched /\ QueueUntouched /\ BroadcastUntouched
    /\ UNCHANGED <<log, grace, bot_tasks, match_ws>>

InitRecovery ==
    /\ SessionIdle /\ NoQueue /\ NoBroadcast /\ log = << >>
    /\ grace = None /\ bot_tasks = << >> /\ match_ws = NoSockets
    /\ recovery \in {RecoveryStart, RecoveryTried}

\* What a call returned: the reset token of verify_code (NoToken for
\* None), the boolean of reset_password.
Returned(op, code, token, password, ok) ==
    [op |-> op, code |-> code, token |-> token, password |-> password, ok |-> ok]

SeqRange(s) == {s[k] : k \in 1 .. Len(s)}

\* The reset tokens verify_code has returned so far.
ResetTokens(r) ==
    {ret.token : ret \in {x \in SeqRange(r.returns) : x.op = "verify" /\ x.ok}}

\* generate_codes, lines 92-124: one transaction deletes the user's codes,
\* inserts the new batch and clears recovery_codes_viewed_at.
generate_codes(r) ==
    [r EXCEPT
       !.codes = [k \in 1 .. CodesCount |->
                     [id |-> plain_codes(r.batches + 1)[k],
                      batch_id |-> r.batches + 1,
                      code_hash |-> pwd_hash(plain_codes(r.batches + 1)[k]),
                      used |-> FALSE]],
       !.batches = r.batches + 1,
       !.issued = r.issued \cup SeqRange(plain_codes(r.batches + 1)),
       !.viewed = FALSE,
       !.calls = r.calls + 1,
       !.returns = Append(r.returns,
                          Returned("generate", WrongCode, NoToken, "", TRUE))]

\* confirm_viewed, lines 441-448.
confirm_viewed(r) ==
    [r EXCEPT !.viewed = TRUE,
              !.calls = r.calls + 1,
              !.returns = Append(r.returns,
                                 Returned("confirm", WrongCode, NoToken, "", TRUE))]

\* _update_ip_attempt, lines 161-212.
update_ip_attempt(r, success) ==
    IF r.ip_locked THEN r
    ELSE IF success THEN [r EXCEPT !.ip_attempts = 0, !.ip_locked = FALSE]
    ELSE [r EXCEPT !.ip_attempts = r.ip_attempts + 1,
                   !.ip_locked = r.ip_attempts + 1 >= IP_MAX_ATTEMPTS]

\* _get_latest_batch_id, lines 221-230; 0 stands for None.
get_latest_batch_id(r) ==
    IF r.codes = << >> THEN 0
    ELSE r.codes[SetMin({k \in 1 .. Len(r.codes) :
                           \A j \in 1 .. Len(r.codes) :
                               r.codes[j].batch_id <= r.codes[k].batch_id})].batch_id

\* verify_code, lines 302-315: the unused codes of the latest batch, and
\* the first of them the submitted code verifies against (0 when none).
candidates(r) ==
    SelectSeq(r.codes, LAMBDA row : row.batch_id = get_latest_batch_id(r) /\ ~row.used)

matched_code(r, code) ==
    IF \E k \in 1 .. Len(candidates(r)) : pwd_verify(code, candidates(r)[k].code_hash)
    THEN SetMin({k \in 1 .. Len(candidates(r)) :
                    pwd_verify(code, candidates(r)[k].code_hash)})
    ELSE 0

\* verify_code up to its first write, lines 237-315: what the call has
\* read when it reaches a commit, or "refused" when it returns at one of
\* the checks of lines 238, 260 and 268.
verify_read(r, code) ==
    IF r.ip_locked \/ ~r.viewed \/ r.locked
    THEN [IdleRequest EXCEPT !.pc = "refused", !.op = "verify", !.code = code]
    ELSE IF matched_code(r, code) = 0
    THEN [IdleRequest EXCEPT !.pc = "commit_failure", !.op = "verify",
                             !.code = code, !.failed = r.failed]
    ELSE [IdleRequest EXCEPT !.pc = "commit_success", !.op = "verify",
                             !.code = code, !.failed = r.failed,
                             !.matched = candidates(r)[matched_code(r, code)].id]

HasRow(rows, id) == \E k \in 1 .. Len(rows) : rows[k].id = id

MarkUsed(rows, id) ==
    [k \in 1 .. Len(rows) |->
        IF rows[k].id = id THEN [rows[k] EXCEPT !.used = TRUE] ELSE rows[k]]

\* lines 284-291 and 317-324: the failed attempt is counted from the value
\* the call read with the user.
commit_failure(r, req) ==
    [r EXCEPT !.failed = req.failed + 1,
              !.locked = r.locked \/ req.failed + 1 >= USER_MAX_ATTEMPTS]

\* lines 335-340: marks the matched code and resets the user's counters.
\* The UPDATE of a row that generate_codes has deleted meanwhile matches no
\* row: the flush raises and nothing is written.
commit_success(r, req) ==
    IF HasRow(r.codes, req.matched)
    THEN [r EXCEPT !.codes = MarkUsed(r.codes, req.matched),
                   !.failed = 0,
                   !.locked = FALSE]
    ELSE r

Finish(r, q, ret) ==
    [r EXCEPT !.requests[q] = IdleRequest, !.returns = Append(r.returns, ret)]

GenerateCodes ==
    /\ recovery.calls < MaxCalls
    /\ recovery.batches < MaxBatches
    /\ recovery' = generate_codes(recovery)
    /\ RecoveryOnly

ConfirmViewed ==
    /\ recovery.calls < MaxCalls
    /\ recovery' = confirm_viewed(recovery)
    /\ RecoveryOnly

\* verify_code from its call to its first commit; a refused call updates
\* the address's attempts and returns no token (lines 238-274).
VerifyBegin(q, code) ==
    /\ recovery.calls < MaxCalls
    /\ recovery.requests[q].pc = "idle"
    /\ \E req \in {verify_read(recovery, code)} :
          recovery' =
             IF req.pc = "refused"
             THEN [Finish(update_ip_attempt(recovery, FALSE), q,
                          Returned("verify", code, NoToken, "", FALSE))
                     EXCEPT !.calls = recovery.calls + 1]
             ELSE [recovery EXCEPT !.requests[q] = req,
                                   !.calls = recovery.calls + 1]
    /\ RecoveryOnly

\* the commit of line 291 or 324 (no code matched) or of line 340.
VerifyCommit(q) ==
    /\ recovery.requests[q].pc \in {"commit_failure", "commit_success"}
    /\ \E req \in {recovery.requests[q]} :
          recovery' =
             IF req.pc = "commit_failure"
             THEN [commit_failure(recovery, req)
                     EXCEPT !.requests[q].pc = "return_failure"]
             ELSE IF HasRow(recovery.codes, req.matched)
             THEN [commit_success(recovery, req)
                     EXCEPT !.requests[q].pc = "return_success"]
             ELSE \* the call ends with the exception: no token
                  Finish(recovery, q, Returned("verify", req.code, NoToken, "", FALSE))
    /\ RecoveryOnly

\* lines 292-300 and 325-333: the failure is counted for the address and
\* no token is returned. Lines 342-363: the token row is inserted, the
\* address's attempts are reset and the token is returned.
VerifyReturn(q) ==
    /\ recovery.requests[q].pc \in {"return_failure", "return_success"}
    /\ \E req \in {recovery.requests[q]} :
          recovery' =
             IF req.pc = "return_failure"
             THEN Finish(update_ip_attempt(recovery, FALSE), q,
                         Returned("verify", req.code, NoToken, "", FALSE))
             ELSE \* the jti is drawn afresh
                  Finish([update_ip_attempt(recovery, TRUE)
                            EXCEPT !.tokens = Append(recovery.tokens,
                                        [id |-> Len(recovery.tokens) + 1, used |-> FALSE])],
                         q,
                         Returned("verify", req.code,
                                  create_reset_token(req.matched[1], req.matched,
                                                     Len(recovery.tokens) + 1),
                                  "", TRUE))
    /\ RecoveryOnly

\* reset_password up to its commit, lines 366-401: False when the token is
\* not a reset token, has no row or has a used row.
reset_read(r, token) ==
    /\ token.type = "recovery_reset"
    /\ HasRow(r.tokens, token.jti)
    /\ \A k \in 1 .. Len(r.tokens) : r.tokens[k].id = token.jti => ~r.tokens[k].used

ResetBegin(q, token, password) ==
    /\ recovery.calls < MaxCalls
    /\ recovery.requests[q].pc = "idle"
    /\ recovery' =
          IF reset_read(recovery, token)
          THEN [recovery EXCEPT !.requests[q] =
                                    [IdleRequest EXCEPT !.pc = "reset_commit",
                                                        !.op = "reset",
                                                        !.token = token,
                                                        !.password = password],
                                !.calls = recovery.calls + 1]
          ELSE [Finish(recovery, q, Returned("reset", WrongCode, token, password, FALSE))
                  EXCEPT !.calls = recovery.calls + 1]
    /\ RecoveryOnly

\* lines 403-407: the row is marked, the password replaced, True returned.
reset_commit(r, req) ==
    [r EXCEPT !.tokens = MarkUsed(r.tokens, req.token.jti),
              !.password_hash = get_password_hash(req.password)]

ResetCommit(q) ==
    /\ recovery.requests[q].pc = "reset_commit"
    /\ \E req \in {recovery.requests[q]} :
          recovery' = Finish(reset_commit(recovery, req), q,
                             Returned("reset", WrongCode, req.token, req.password, TRUE))
    /\ RecoveryOnly

NextRecovery ==
    \/ GenerateCodes
    \/ ConfirmViewed
    \/ \E q \in Requests : \E code \in recovery.issued \cup {WrongCode} : VerifyBegin(q, code)
    \/ \E q \in Requests : VerifyCommit(q)
    \/ \E q \in Requests : VerifyReturn(q)
    \/ \E q \in Requests :
          \E token \in ResetTokens(recovery) \cup {create_setup_token} :
             \E password \in NewPasswords : ResetBegin(q, token, password)
    \/ \E q \in Requests : ResetCommit(q)

SpecRecovery == InitRecovery /\ [][NextRecovery]_vars

\* ------------------------------------------------- the recovery lock-out
\* verify_code with the clock of the service (now_fn, sleep_fn), for calls
\* made one after the other. Time is counted in half seconds, the unit of
\* the back-off schedule.
USER_WINDOW_SECONDS == 900
USER_LOCK_SECONDS == 1800
BACKOFF_MAX_SECONDS == 8

Seconds(n) == n + n

\* BACKOFF_SCHEDULE_SECONDS = (0.5, 1.0, 2.0, 4.0), in half seconds.
BACKOFF_SCHEDULE == <<1, 2, 4, 8>>

MaxLockCalls == 7

\* _get_backoff_seconds, lines 214-219, in half seconds.
get_backoff(attempts) ==
    IF attempts <= 0 THEN 0
    ELSE LET delay == BACKOFF_SCHEDULE[IF attempts < Len(BACKOFF_SCHEDULE)
                                       THEN attempts ELSE Len(BACKOFF_SCHEDULE)]
         IN  IF delay < Seconds(BACKOFF_MAX_SECONDS) THEN delay
             ELSE Seconds(BACKOFF_MAX_SECONDS)

\* The user of RecoveryStart with the service's clock and the user's
\* recovery_lock_until and recovery_last_attempt_at.
TimedStart ==
    [now |-> 0, lock_until |-> None, last_attempt_at |-> None, returned_at |-> None]
    @@ RecoveryStart

\* lines 268 and 275-280 as the call sees them at its clock reading: the
\* lock in force, the failed attempts after the window's reset.
as_read(r) ==
    [r EXCEPT !.locked = r.lock_until # None /\ r.lock_until > r.now,
              !.failed = IF /\ r.last_attempt_at # None
                            /\ r.now - r.last_attempt_at > Seconds(USER_WINDOW_SECONDS)
                         THEN 0 ELSE r.failed]

\* lines 284-300 and 317-333: the failed attempt is committed with the
\* lock counted from the clock reading taken at line 235, then the call
\* sleeps the back-off and returns.
timed_failure(r, req, code) ==
    [update_ip_attempt(commit_failure(as_read(r), req), FALSE)
       EXCEPT !.lock_until = IF req.failed + 1 >= USER_MAX_ATTEMPTS
                             THEN r.now + Seconds(USER_LOCK_SECONDS)
                             ELSE r.lock_until,
              !.last_attempt_at = r.now,
              !.now = r.now + get_backoff(req.failed + 1),
              !.returned_at = r.now + get_backoff(req.failed + 1),
              !.calls = r.calls + 1,
              !.returns = Append(r.returns, Returned("verify", code, NoToken, "", FALSE))]

\* lines 335-363.
timed_success(r, req, code) ==
    [update_ip_attempt(commit_success(as_read(r), req), TRUE)
       EXCEPT !.lock_until = None,
              !.last_attempt_at = r.now,
              !.returned_at = r.now,
              !.tokens = Append(r.tokens, [id |-> Len(r.tokens) + 1, used |-> FALSE]),
              !.calls = r.calls + 1,
              !.returns = Append(r.returns,
                                 Returned("verify", code,
                                          create_reset_token(req.matched[1], req.matched,
                                                             Len(r.tokens) + 1),
                                          "", TRUE))]

\* lines 238-274: the refused call writes nothing of the user's.
timed_refusal(r, code) ==
    [update_ip_attempt(r, FALSE)
       EXCEPT !.returned_at = r.now,
              !.calls = r.calls + 1,
              !.returns = Append(r.returns, Returned("verify", code, NoToken, "", FALSE))]

\* verify_code from call to return, with no other call in between.
verify_code(r, code) ==
    IF verify_read(as_read(r), code).pc = "refused" THEN timed_refusal(r, code)
    ELSE IF verify_read(as_read(r), code).pc = "commit_failure"
    THEN timed_failure(r, verify_read(as_read(r), code), code)
    ELSE timed_success(r, verify_read(as_read(r), code), code)

TimedGenerate ==
    /\ recovery.calls < MaxLockCalls
    /\ recovery.batches < 1
    /\ recovery' = [generate_codes(recovery) EXCEPT !.returned_at = recovery.now]
    /\ RecoveryOnly

TimedConfirm ==
    /\ recovery.calls < MaxLockCalls
    /\ ~recovery.viewed
    /\ recovery' = [confirm_viewed(recovery) EXCEPT !.returned_at = recovery.now]
    /\ RecoveryOnly

TimedVerify(code) ==
    /\ recovery.calls < MaxLockCalls
    /\ recovery' = verify_code(recovery, code)
    /\ RecoveryOnly

\* The attempts' window goes by between two calls.
TimedWait ==
    /\ recovery.calls < MaxLockCalls
    /\ recovery.last_attempt_at # None
    /\ recovery.now - recovery.last_attempt_at <= Seconds(USER_WINDOW_SECONDS)
    /\ recovery' = [recovery EXCEPT !.now = recovery.last_attempt_at
                                            + Seconds(USER_WINDOW_SECONDS) + 1]
    /\ RecoveryOnly

InitLockout ==
    /\ SessionIdle /\ NoQueue /\ NoBroadcast /\ log = << >>
    /\ grace = None /\ bot_tasks = << >> /\ match_ws = NoSockets
    /\ recovery = TimedStart

NextLockout ==
    \/ TimedGenerate
    \/ TimedConfirm
    \/ \E code \in recovery.issued \cup {WrongCode} : TimedVerify(code)
    \/ TimedWait

SpecLockout == InitLockout /\ [][NextLockout]_vars

\* ------------------------------------------------------------ a board with no placement left

RotateMove == [action |-> "move", direction |-> "rotate"]

\* The column an I piece stands in after one rotation where it spawned.
UprightColumn == BOARD_WIDTH \div 2

\* The holders of the turn, one after the other, rotate their I piece
\* upright, move it over column `col` (counted from 0) and lock it; every
\* lock draws another I piece.
RECURSIVE stood(_, _, _)
stood(g, cols, tc) ==
    IF cols = << >> THEN g
    ELSE CHOOSE end \in
            {stood(locked, Tail(cols), tc) :
                locked \in
                   {tetris_engine_process_move(moved, g.current_player,
                                               LockMove, tc, "I").stored :
                       moved \in
                          {shifted(upright, Head(cols) - UprightColumn, tc) :
                              upright \in {tetris_engine_process_move(
                                               g, g.current_player,
                                               RotateMove, tc,
                                               "I").stored}}}} : TRUE

\* Every second column is filled from the floor up by upright I pieces,
\* the columns between stay empty (so no row is ever full): all of them up
\* to four rows below the top, then the top of each but the middle one.
EvenColumns == [k \in 1 .. (BOARD_WIDTH \div 2) |-> (k + k) - 2]

FillLayers == (BOARD_HEIGHT \div 4) - 1

TopOrder == <<0, BOARD_WIDTH - 2, 2, BOARD_WIDTH - 4>>

RECURSIVE FillColumns(_)
FillColumns(layers) ==
    IF layers = 0 THEN TopOrder
    ELSE EvenColumns \o FillColumns(layers - 1)

FilledPieces == Len(FillColumns(FillLayers))

InitFill ==
    /\ SessionOnlyInit
    /\ time_control = [initial_time |-> 0, increment |-> TetrisIncrement]
    /\ \E first \in Slots :
          active_games = stood(tetris_create_game(time_control, first, "I"),
                               FillColumns(FillLayers), time_control)
    /\ finished_games = NoGame
    /\ pc = "loop"
    /\ stale = FALSE
    /\ tgs = NoGame
    /\ conns = Slots
    /\ reply = ""

FillPhaseMoves == {RotateMove, LeftMove, DownMove, LockMove}

\* websocket_endpoint, action == 'move', while the last I piece comes down.
FillClientMove(slot, move, gen) ==
    /\ SessionOnly
    /\ slot \in conns
    /\ active_games # NoGame
    /\ active_games.status \in {"first_move", "playing", "disconnect_wait"}
    /\ PiecesPlaced(active_games) = FilledPieces
    /\ \E r \in {tetris_engine_process_move(active_games, slot, move,
                                            time_control, gen)} :
          IF r.valid
          THEN /\ active_games' = r.stored
               /\ IF pc \in TetrisSuspended /\ ~stale
                  THEN stale' = TRUE /\ tgs' = active_games
                  ELSE UNCHANGED <<stale, tgs>>
               /\ reply' = ""
          ELSE /\ reply' = "invalid move"
               /\ UNCHANGED <<active_games, stale, tgs>>
    /\ UNCHANGED <<time_control, finished_games, pc, conns>>

NextFill ==
    \/ \E slot \in Slots : \E move \in FillPhaseMoves : \E gen \in TetrisBag :
          FillClientMove(slot, move, gen)
    \/ TetrisTickLoop
    \/ TetrisTickAfterTurn
    \/ TetrisTickAfterFinish
    \/ TetrisTickAfterState

SpecFill == InitFill /\ [][NextFill]_vars

\* ------------------------------------------------ the notice of a match
\* create_matched_game, lines 179-185 of game_state.py, with the handlers of
\* matchmaking_websocket that lead to it.  A participant has one websocket
\* on /ws/matchmaking; once it is lost every send on it raises, and the
\* handler's `except WebSocketDisconnect` runs some time later.

SideColors == <<"#007bff", "#dc3545">>

match_found(pair, k, game_id) ==
    [type |-> "match_found", to |-> pair[k].user_id, game_id |-> game_id,
     color |-> SideColors[k]]

\* lines 180-185: both sends stand in one try block, so a send that raises
\* ends the block.
notify(ws, pair, game_id) ==
    IF pair[1].user_id \in ws.closed
    THEN ws
    ELSE IF pair[2].user_id \in ws.closed
    THEN [ws EXCEPT !.sent = Append(@, match_found(pair, 1, game_id))]
    ELSE [ws EXCEPT !.sent = @ \o <<match_found(pair, 1, game_id),
                                    match_found(pair, 2, game_id)>>]

\* The notices of the sessions created from the `from`-th call on.
RECURSIVE notify_from(_, _, _)
notify_from(ws, gs, from) ==
    IF from > Len(gs) THEN ws
    ELSE notify_from(notify(ws, gs[from], from), gs, from + 1)

NotifyOnly ==
    /\ SessionUntouched /\ BroadcastUntouched
    /\ UNCHANGED <<log, grace, bot_tasks, recovery>>

\* The join_pool message of matchmaking_websocket, the notice included.
NotifyJoin(user_id, rating, choice) ==
    /\ user_id \notin match_ws.closed
    /\ joins < MaxJoins
    /\ joins' = joins + 1
    /\ \E r \in {join_pool(pools, WaitingPlayer(user_id, rating, choice, joins + 1))} :
          /\ pools' = r.pools
          /\ games' = create_matched_game(games, r.pair)
    /\ match_ws' = notify_from(match_ws, games', Len(games) + 1)
    /\ last' = <<"join_pool", user_id>>
    /\ NotifyOnly

\* The leave_pool message.
NotifyLeave(user_id) ==
    /\ user_id \notin match_ws.closed
    /\ pools' = leave_pool(pools, user_id)
    /\ last' = <<"leave_pool", user_id>>
    /\ UNCHANGED <<games, joins, match_ws>>
    /\ NotifyOnly

\* The participant's connection is lost.
SocketLost(user_id) ==
    /\ user_id \notin match_ws.closed
    /\ match_ws' = [match_ws EXCEPT !.closed = @ \cup {user_id}]
    /\ UNCHANGED <<pools, games, joins, last>>
    /\ NotifyOnly

\* lines 225-226 of matchmaking_websocket: receive_text raises
\* WebSocketDisconnect and the handler leaves the pool.
Disconnected(user_id) ==
    /\ user_id \in match_ws.closed \ match_ws.gone
    /\ pools' = leave_pool(pools, user_id)
    /\ match_ws' = [match_ws EXCEPT !.gone = @ \cup {user_id}]
    /\ last' = <<"leave_pool", user_id>>
    /\ UNCHANGED <<games, joins>>
    /\ NotifyOnly

\* matchmaking_loop wakes up, the notices included.
NotifySweep ==
    /\ \E r \in {sweep_from([pools |-> pools, games |-> games], PoolKeys(pools))} :
          pools' = r.pools /\ games' = r.games
    /\ match_ws' = notify_from(match_ws, games', Len(games) + 1)
    /\ last' = <<"matchmaking_loop">>
    /\ UNCHANGED joins
    /\ NotifyOnly

NextNotify ==
    \/ \E user_id \in Users : \E rating \in Ratings : \E choice \in QueueChoices :
          NotifyJoin(user_id, rating, choice)
    \/ \E user_id \in Users : NotifyLeave(user_id)
    \/ \E user_id \in Users : SocketLost(user_id)
    \/ \E user_id \in Users : Disconnected(user_id)
    \/ NotifySweep

SpecNotify == InitMatch /\ [][NextNotify]_vars

\* ------------------------------------------------ a session from a casual pool
\* The queue and the session it leads to, for one pool: matchmaking_websocket
\* gives an anonymous participant a casual pool and the rating 1500
\* (api/games.py 192-194).  The session's clock runs with the bounds of Spec.

CasualChoice == <<"pentago", "5+3", FALSE>>

CasualRating == SetMin(Ratings)

\* create_matched_game, lines 138-175: the TimeControl built from the pool's
\* time control and GameEngine.create_game called with (game_id, game_type,
\* players, time_control_obj); the pair's rated flag is not handed on.
matched_session(pair, tc, first) == initialize_game(tc, first)

\* The join_pool message of matchmaking_websocket and, when it makes a pair,
\* the session create_matched_game registers for it.
CasualJoin(user_id, first) ==
    /\ games = << >>
    /\ joins < MaxJoins
    /\ joins' = joins + 1
    /\ \E r \in {join_pool(pools, WaitingPlayer(user_id, CasualRating,
                                                CasualChoice, joins + 1))} :
          /\ pools' = r.pools
          /\ games' = create_matched_game(games, r.pair)
          /\ IF r.pair = << >>
             THEN UNCHANGED <<time_control, active_games, pc>>
             ELSE /\ time_control' = [initial_time |-> InitialTime,
                                      increment |-> Increment]
                  /\ active_games' = matched_session(r.pair, time_control', first)
                  /\ pc' = "loop"
    /\ last' = <<"join_pool", user_id>>
    /\ UNCHANGED <<finished_games, stale, tgs, conns, reply, log>>
    /\ BroadcastUntouched /\ OtherUntouched

NextCasual ==
    \/ \E user_id \in Users : \E first \in Slots : CasualJoin(user_id, first)
    \/ Next

SpecCasual == InitMatch /\ [][NextCasual]_vars

\* ------------------------------------------------------------ properties
\* The session as a client sees it (get_game_state), and the steps of the
\* specification told apart by what they change.
Visible == get_game_state

AcceptedMove ==
    /\ active_games # NoGame
    /\ active_games' # NoGame
    /\ MovesMade(active_games') > MovesMade(active_games)

Retained == finished_games = NoGame /\ finished_games' # NoGame

TickStep == pc' # pc /\ pc' # "cancelled"

SameOutcome(g, h) ==
    /\ g.status = h.status
    /\ g.winner = h.winner
    /\ g.grid = h.grid
    /\ g.current_player = h.current_player
    /\ g.time_remaining = h.time_remaining

\* C1: the tick never ends the session from the state it read before an
\* accepted move: whenever the session is retained as finished, the task
\* still holds the registered object, and the retained move log is the
\* registered one, accepted moves included.
C1_NoStaleCommit ==
    [][Retained => /\ ~stale
                   /\ finished_games'.moves_history = active_games.moves_history]_vars

\* C2: a submission by a slot that does not hold the turn, or one the rule
\* engine rejects, makes process_move return invalid and register the object
\* it found; and a step that answers "invalid move" changes nothing of the
\* session (board, turn, clocks, phase, winner, move log).
C2_Rejection ==
    active_games # NoGame =>
        \A slot \in Slots : \A by \in Slots :
            \A move \in ClientMoves(active_games.grid, by) :
                (slot # active_games.current_player
                    \/ ~is_valid_move(active_games.grid, move))
                => LET r == engine_process_move(active_games, slot, move, time_control)
                   IN ~r.valid /\ r.stored = active_games

ClockExpired ==
    /\ pc = "bcast_clock"
    /\ TickState.status = "playing"
    /\ TickState.time_remaining[TickState.current_player] <= 0

C3_NoMoveAfterExpiry ==
    [][ClockExpired => ~AcceptedMove]_vars

\* C4: once the session's phase is finished, its phase, winner, board, turn
\* and clocks never change again.
C4_FinishedIsFinal ==
    [][(Visible # NoGame /\ Visible.status = "finished" /\ Visible' # NoGame)
          => SameOutcome(Visible, Visible')]_vars

\* C5: the phase changes only along waiting -> first_move, first_move ->
\* playing, playing <-> disconnect_wait and into finished: from first_move by
\* the first-move timeout of the timer task, from playing or disconnect_wait
\* by an accepted move (win, draw) or by the timer task (clock expiry,
\* disconnect expiry).
PhaseEdges ==
    {<<"waiting", "first_move">>, <<"first_move", "playing">>,
     <<"playing", "disconnect_wait">>, <<"disconnect_wait", "playing">>,
     <<"first_move", "finished">>, <<"playing", "finished">>,
     <<"disconnect_wait", "finished">>}

PhaseChange ==
    /\ Visible # NoGame
    /\ Visible' # NoGame
    /\ Visible'.status # Visible.status

C5_PhaseEdges ==
    [][PhaseChange =>
        /\ <<Visible.status, Visible'.status>> \in PhaseEdges
        /\ Visible'.status = "finished" =>
              IF Visible.status = "first_move"
              THEN TickStep /\ Visible'.first_move_timer <= 0
              ELSE \/ AcceptedMove /\ (check_winner(Visible'.grid) # None
                                         \/ is_draw(Visible'.grid))
                   \/ TickStep]_vars

C5_WitnessReconnect ==
    /\ Visible # NoGame
    /\ Visible.status = "playing"
    /\ conns = Slots
    /\ MovesMade(Visible) > 2
    /\ pc = "bcast_disconnect"

\* C9: the session leaves first_move for playing exactly when the second
\* accepted move is applied; the two moves of the phase are made by
\* different slots; and the first of them restarts the 30-second first-move
\* timer for the other slot.
C9_Phase ==
    Visible # NoGame =>
        /\ Visible.status = "waiting" => MovesMade(Visible) = 0
        /\ Visible.status = "first_move" => MovesMade(Visible) <= 1
        /\ MovesMade(Visible) >= 2 =>
              Visible.moves_history[1].player_id # Visible.moves_history[2].player_id

C9_FirstMoves ==
    [](C9_Phase)
    /\ [][(Visible # NoGame /\ Visible' # NoGame) =>
            /\ (Visible.status = "first_move" /\ Visible'.status = "playing")
                  <=> (AcceptedMove /\ MovesMade(Visible') = 2)
            /\ (AcceptedMove /\ MovesMade(Visible') = 1) =>
                  /\ Visible'.status = "first_move"
                  /\ Visible'.first_move_timer = FIRST_MOVE_SECONDS
                  /\ Visible'.first_move_player = Opponent(Visible.current_player)
                  /\ Visible'.current_player = Visible'.first_move_player]_vars

C9_Witness ==
    /\ Visible # NoGame
    /\ Visible.status = "playing"
    /\ MovesMade(Visible) = 2

\* C10: in first_move a tick changes neither slot's clock; an iteration of
\* the timer takes one second off the first-move timer and nothing else,
\* and when that timer reaches 0 or below the session is finished with the
\* slot on the clock for its first move as loser.
C10_FirstMoveTick ==
    [][(Visible # NoGame /\ Visible.status = "first_move" /\ TickStep) =>
         /\ Visible' # NoGame
         /\ Visible'.time_remaining = Visible.time_remaining
         /\ pc = "loop" =>
              /\ Visible'.first_move_timer = Visible.first_move_timer - 1
              /\ IF Visible'.first_move_timer <= 0
                 THEN /\ Visible'.status = "finished"
                      /\ Visible'.winner = Opponent(Visible.first_move_player)
                 ELSE Visible'.status = "first_move"
         /\ pc # "loop" => Visible' = Visible]_vars

C10_Witness ==
    /\ Visible # NoGame
    /\ Visible.status = "finished"
    /\ Visible.first_move_timer # None
    /\ Visible.first_move_timer <= 0
    /\ MovesMade(Visible) = 1

\* C6: a falling-piece session is in phase playing from its creation, with
\* a falling piece spawned, until it is finished: it is never in waiting,
\* first_move or disconnect_wait.
C6_TetrisPhases ==
    Visible # NoGame =>
        /\ Visible.status \in {"playing", "finished"}
        /\ Visible.moves_history = << >> /\ pc = "loop" /\ conns = {}
              => Visible.board_state.falling_piece # NoPiece

\* C7: a leave in phase playing with both slots connected puts the session
\* in disconnect_wait with a 30-second countdown for the leaver; the leaver's
\* rejoin before expiry puts it back in playing with the countdown and the
\* disconnected slot cleared; and the timer task awards a disconnect forfeit
\* only to a session that is still in disconnect_wait.
DisconnectForfeit ==
    /\ pc # "bcast_disconnect"
    /\ pc' = "bcast_disconnect"
    /\ (TickState.status = "finished")'

C7_Reconnect ==
    [][/\ \A s \in Slots :
            (Visible # NoGame /\ Visible.status = "playing"
                /\ conns = Slots /\ conns' = Slots \ {s})
            => /\ Visible'.status = "disconnect_wait"
               /\ Visible'.disconnect_timer = DISCONNECT_SECONDS
               /\ Visible'.disconnected_player = s
       /\ \A s \in Slots :
            (Visible # NoGame /\ Visible.status = "disconnect_wait"
                /\ Visible.disconnected_player = s
                /\ s \notin conns /\ s \in conns')
            => /\ Visible'.status = "playing"
               /\ Visible'.disconnect_timer = None
               /\ Visible'.disconnected_player = None
       /\ DisconnectForfeit => Visible.status = "disconnect_wait"]_vars

\* C8: in disconnect_wait an iteration of the timer takes one second off the
\* on-turn slot's clock and one off the reconnection countdown of the
\* session; when the countdown reaches 0 or below the session is finished
\* and the winner is the slot other than the disconnected one, whoever
\* holds the turn.
C8_DisconnectTick ==
    [][(Visible # NoGame /\ Visible.status = "disconnect_wait" /\ TickStep) =>
         LET cur == Visible.current_player
         IN /\ pc = "loop" =>
                 /\ Visible'.time_remaining[cur] = Visible.time_remaining[cur] - 1
                 /\ Visible'.disconnect_timer = Visible.disconnect_timer
            /\ pc = "bcast_clock" =>
                 IF Visible.time_remaining[cur] <= 0
                 THEN /\ Visible'.status = "finished"
                      /\ Visible'.winner = Opponent(cur)
                 ELSE IF Visible.disconnect_timer - 1 <= 0
                 THEN /\ Visible'.status = "finished"
                      /\ Visible'.winner = Opponent(Visible.disconnected_player)
                 ELSE /\ Visible'.status = "disconnect_wait"
                      /\ Visible'.disconnect_timer = Visible.disconnect_timer - 1]_vars

\* C11: while the session is in playing and no move is accepted, the step
\* of the timer from the top of its loop takes exactly 1 off the clock of
\* the slot on turn and leaves the other clock alone, and no other step
\* changes a clock; N ticks in a row therefore take exactly N off the
\* on-turn clock.
ClockTickStep == pc = "loop" /\ pc' = "bcast_clock"

C11_Step ==
    (/\ Visible.status = "playing"
     /\ Visible'.status = "playing"
     /\ ~AcceptedMove)
    => LET cur == Visible.current_player
       IN /\ Visible'.current_player = cur
          /\ Visible'.time_remaining[Opponent(cur)] = Visible.time_remaining[Opponent(cur)]
          /\ Visible'.time_remaining[cur] =
                 IF ClockTickStep THEN Visible.time_remaining[cur] - 1
                                  ELSE Visible.time_remaining[cur]

C11_ClockTick == [][C11_Step]_vars

\* Ten ticks after the second move: the slot on turn has lost 10 seconds,
\* the other slot none.
C11_Witness ==
    /\ Visible.status = "playing"
    /\ MovesMade(Visible) = 2
    /\ Visible.time_remaining[Visible.current_player] = LongInitialTime - 10
    /\ Visible.time_remaining[Opponent(Visible.current_player)] = LongInitialTime

\* ------------------------------------------------- matchmaking properties
SeqSet(q) == {q[i] : i \in 1..Len(q)}

Queued(ps) == UNION {SeqSet(ps[i].players) : i \in 1..Len(ps)}

Matched(gs) == UNION {{gs[i][1], gs[i][2]} : i \in 1..Len(gs)}

KeyOf(e) == make_pool_key(e.game_type, e.time_control, e.rated)

\* Every adjacent gap of the pool exceeds the threshold.
NoCloseNeighbours(players) ==
    \A i \in 1..(Len(players) - 1) :
        Abs(players[i].rating - players[i + 1].rating) > MATCH_THRESHOLD

JoinStep == joins' = joins + 1

SweepStep == last' = <<"matchmaking_loop">>

\* The entry the join of this step builds.
JoinedEntry == CHOOSE e \in Queued(pools') \cup Matched(games') : e.joined_at = joins'

NewGames == {games'[i] : i \in (Len(games) + 1)..Len(games')}

\* C12: a pairing pass matches two entries only when they were queued under
\* the same pool key, with the same game type, time control and rated flag,
\* and their ratings are at most 150 apart; a pass over a pool whose
\* adjacent gaps all exceed 150 leaves the pool as it is and creates no
\* session.
C12_Step ==
    /\ SubSeq(games', 1, Len(games)) = games
    /\ \A g \in NewGames :
          /\ g[1].game_type = g[2].game_type
          /\ g[1].time_control = g[2].time_control
          /\ g[1].rated = g[2].rated
          /\ KeyOf(g[1]) = KeyOf(g[2])
          /\ Abs(g[1].rating - g[2].rating) <= MATCH_THRESHOLD
          /\ {g[1], g[2]} \subseteq
                 SeqSet(PoolOf(pools, KeyOf(g[1]))) \cup (IF JoinStep THEN {JoinedEntry} ELSE {})
    /\ SweepStep =>
          \A i \in 1..Len(pools) :
              NoCloseNeighbours(pools[i].players) => PoolOf(pools', pools[i].key) = pools[i].players
    /\ JoinStep =>
          LET queued == insert_sorted(PoolOf(pools, KeyOf(JoinedEntry)), JoinedEntry)
          IN NoCloseNeighbours(queued) =>
                 /\ PoolOf(pools', KeyOf(JoinedEntry)) = queued
                 /\ games' = games

C12_Pairing == [][C12_Step]_vars

\* Entries at 1500 and 1700 waited in one pool; the third entry, at 1620,
\* was paired with the one at 1700, and the one at 1500 still waits after a
\* sweep.
C12_Witness ==
    /\ Len(games) = 1
    /\ games[1][1].rating = 1620 /\ games[1][1].joined_at = 3
    /\ games[1][2].rating = 1700
    /\ \E e \in SeqSet(PoolOf(pools, KeyOf(games[1][1]))) : e.rating = 1500 /\ e.joined_at < 3
    /\ last = <<"matchmaking_loop">>

\* The pool a pass of this step looks at under the key: after the insertion
\* for a join, as it stands for a sweep.
PassPool(pool_key) ==
    IF JoinStep /\ KeyOf(JoinedEntry) = pool_key
    THEN insert_sorted(PoolOf(pools, pool_key), JoinedEntry)
    ELSE PoolOf(pools, pool_key)

\* C13: the pair a pass removes is adjacent in the sorted pool, no adjacent
\* pair of the whole pool has a smaller gap, and every adjacent pair below
\* it has a strictly larger gap.
C13_Step ==
    \A g \in NewGames :
        LET players == PassPool(KeyOf(g[1]))
            gap(j) == Abs(players[j].rating - players[j + 1].rating)
        IN \E i \in 1..(Len(players) - 1) :
              /\ players[i] = g[1]
              /\ players[i + 1] = g[2]
              /\ \A j \in 1..(Len(players) - 1) : gap(j) >= gap(i)
              /\ \A j \in 1..(i - 1) : gap(j) > gap(i)

C13_ClosestPair == [][C13_Step]_vars

\* Two equal gaps: with 1500 and 1700 waiting, the entry at 1600 is paired
\* with the one at 1500 and the one at 1700 still waits.
C13_Witness ==
    /\ Len(games) = 1
    /\ games[1][1].rating = 1500
    /\ games[1][2].rating = 1600 /\ games[1][2].joined_at = 3
    /\ \E e \in SeqSet(PoolOf(pools, KeyOf(games[1][1]))) : e.rating = 1700 /\ e.joined_at < 3

\* C14: every pool is sorted by rating ascending, and entries of equal
\* rating stand in the order of their join times.
Sorted(players) ==
    \A i \in 1..(Len(players) - 1) :
        \/ players[i].rating < players[i + 1].rating
        \/ /\ players[i].rating = players[i + 1].rating
           /\ players[i].joined_at <= players[i + 1].joined_at

C14_PoolsSorted == \A i \in 1..Len(pools) : Sorted(pools[i].players)

\* A pool of two in which the lower-rated entry joined later, after a
\* participant has left and a sweep has run.
C14_Witness ==
    /\ \E i \in 1..Len(pools) :
          /\ Len(pools[i].players) = 2
          /\ pools[i].players[1].joined_at > pools[i].players[2].joined_at
    /\ joins = MaxJoins
    /\ last # << >> /\ last[1] # "join_pool"

LeaveStep == last' # << >> /\ last'[1] = "leave_pool"

HasEntry(ps, user_id) == \E e \in Queued(ps) : e.user_id = user_id

\* C15: when leave_pool(participant) has returned, no pool holds an entry
\* of that participant, whatever other pools exist at that time.
C15_LeftIsGone == [][LeaveStep => ~HasEntry(pools', last'[2])]_vars

\* C15: a participant that has left is not matched by a later pass unless
\* it joins again: the entries of a session created in a step belong to the
\* joiner of the step or to a participant whose last request was not a leave.
C15_LeftIsNotMatched ==
    [][\A g \in NewGames : \A k \in 1..2 :
           (last # << >> /\ last[1] = "leave_pool" /\ last[2] = g[k].user_id)
           => (JoinStep /\ JoinedEntry = g[k])]_vars

EligiblePairQueued ==
    \E i \in 1..Len(pools) : ~NoCloseNeighbours(pools[i].players)

QueueAtRest == ~EligiblePairQueued

\* --------------------------------------------------- broadcast properties
\* C18: a broadcast is best-effort under every interleaving: the timer task
\* that issued it keeps running, also when a join or a leave for the same
\* session runs while the broadcast is suspended on a send.
C18_TickSurvivesBroadcast == timer # "failed"

\* The part of C18 that does not depend on the interleaving: a call that
\* returns has deleted the handles whose send failed in it.
C18_FailedHandlesDropped ==
    [][\A i \in Issuers :
          (frames[i].pc = "send" /\ frames'[i].pc = "idle"
               /\ (i = "tick" => timer' # "failed")
               /\ (frames[i].disconnected # << >> \/ frames[i].fails)
               /\ iter_next(game_connections, frames[i]) = "end")
          => LET f == frames[i]
                 failed == SeqSet(f.disconnected) \cup (IF f.fails THEN {f.to} ELSE {})
             IN \A u \in failed : u \notin Connected(game_connections')]_vars

\* ----------------------------------------------- end-of-session properties
RatingCalls(l) == SelectSeq(l, LAMBDA e : e[1] = "ratings")

CleanupReturns == pc \in CleanupPositions /\ pc' = "done"

\* The outcome a rating update is to be given: 1 when slot 0 has won, 2 when
\* slot 1 has won, 0 for a draw.
OutcomeOf(g) == CASE g.winner = 0 -> 1 [] g.winner = 1 -> 2 [] OTHER -> 0

\* C19: when the cleanup of a rated session returns, the rating update has
\* been called exactly once, with the outcome of the session: slot 0 won,
\* slot 1 won, or draw.
C19_RatedOnce ==
    [][(CleanupReturns /\ finished_games.rated)
       => /\ Len(RatingCalls(log')) = 1
          /\ RatingCalls(log')[1][2] = OutcomeOf(finished_games)]_vars

\* The same for the sessions that have a winner.
C19_WonRatedOnce ==
    [][(CleanupReturns /\ finished_games.rated /\ finished_games.winner # None)
       => /\ Len(RatingCalls(log')) = 1
          /\ RatingCalls(log')[1][2] = OutcomeOf(finished_games)]_vars

\* C20: a save or a rating update that fails at the end of a session does
\* not undo or block the end: the session found finished is moved from
\* active_games to finished_games as it is, stays there with its status and
\* winner through the cleanup, and the step in which a save or the rating
\* update fails takes the cleanup on, to its return after the rating
\* update, where the timer task leaves its loop.
FailedHere ==
    /\ Len(log') = Len(log) + 1
    /\ log'[Len(log')][1] \in {"save", "ratings"}
    /\ ~log'[Len(log')][3]

C20_Step ==
    /\ (pc = "loop" /\ pc' # "loop")
       => /\ finished_games' = active_games
          /\ finished_games'.status = "finished"
          /\ active_games' = NoGame
    /\ pc \in CleanupPositions
       => /\ finished_games' = finished_games
          /\ finished_games'.status = "finished"
          /\ active_games' = NoGame
    /\ FailedHere
       => /\ pc' \in (CleanupPositions \cup {"done"}) \ {pc}
          /\ pc = "ratings" => pc' = "done"

C20_FailureKeepsEnd == [][C20_Step]_vars

\* Both saves and the rating update have failed; the session won by slot 0
\* is in finished_games, out of active_games, and the task is done.
C20_Witness ==
    /\ pc = "done"
    /\ active_games = NoGame
    /\ finished_games # NoGame
    /\ finished_games.status = "finished"
    /\ finished_games.winner = 0
    /\ log = <<<<"save", 0, FALSE>>, <<"save", 1, FALSE>>,
              <<"clear", 0, TRUE>>, <<"clear", 1, TRUE>>, <<"ratings", 1, FALSE>>>>

\* ---------------------------------------------------- abandoned sessions
\* The last connection of a session that is not finished goes away.
LastLeaves ==
    /\ conns # {}
    /\ conns' = {}
    /\ active_games # NoGame
    /\ active_games.status \in {"waiting", "first_move", "playing"}

\* C22: in a session that never had two connections at once, the step in
\* which the last connection goes away while the session is waiting, in
\* first_move or playing removes it from active_games and stops its timer
\* task, with no winner and nothing put in finished_games.
C22_AbandonedIsTornDown ==
    [][LastLeaves
       => /\ active_games' = NoGame
          /\ pc' \in {"cancelled", "done"}
          /\ finished_games' = finished_games]_vars

\* The same for the sessions in status playing.
C22_AbandonedPlayingIsTornDown ==
    [][(LastLeaves /\ active_games.status = "playing")
       => /\ active_games' = NoGame
          /\ pc' \in {"cancelled", "done"}
          /\ finished_games' = finished_games]_vars

\* ---------------------------------------------------------- bot properties
MarksOf(g, slot) ==
    Cardinality({c \in Cells \X Cells : g.grid[c[1]][c[2]] = slot})

\* A step that puts a mark of the bot on the registered board.
BotMoveApplied ==
    /\ active_games # NoGame
    /\ active_games' # NoGame
    /\ \E slot \in Bots : MarksOf(active_games', slot) > MarksOf(active_games, slot)

\* A step in which a bot task ends without another one being created.
BotTaskEnds == Len(bot_tasks') < Len(bot_tasks)

C21_Step ==
    /\ BotMoveApplied
       => /\ active_games.status \in {"first_move", "playing", "disconnect_wait"}
          /\ is_bot_player(active_games.current_player)
          /\ \E move \in get_valid_moves(active_games) :
                 active_games' = engine_process_move(active_games,
                                     active_games.current_player, move,
                                     time_control).stored
          /\ \A slot \in Bots :
                 MarksOf(active_games', slot) <= MarksOf(active_games, slot) + 1
          /\ \/ active_games'.status = "finished"
             \/ ~is_bot_player(active_games'.current_player)
    /\ (BotTaskEnds /\ ~BotMoveApplied)
       => UNCHANGED <<active_games, finished_games, pc, stale, tgs>>

\* C21, rotating-board sessions: a mark of the bot is put on the board only by a step taken while the
\* registered session is in first_move, playing or disconnect_wait with the
\* bot on turn; the step applies one move, valid on the board registered at
\* that moment, and leaves the session finished or the turn with the other
\* slot.  A bot task that ends without applying a move changes nothing of
\* the session.
C21_BotMoves == [][C21_Step]_vars

\* The bot has answered two moves of the human, and a task woken with its
\* clock run out has done nothing: no task is left, the session is finished
\* on time with the bot's two marks.
C21_Witness ==
    /\ active_games = NoGame
    /\ finished_games # NoGame
    /\ finished_games.status = "finished"
    /\ \E slot \in Bots : MarksOf(finished_games, slot) = 2
    /\ bot_tasks = << >>

\* A step of a bot task in a falling-piece session: a task that existed
\* has gone on or returned.
TetrisBotActs ==
    \/ Len(bot_tasks') < Len(bot_tasks)
    \/ \E i \in 1 .. Len(bot_tasks) :
          i <= Len(bot_tasks') /\ bot_tasks'[i] # bot_tasks[i]

TetrisBotMoveApplied == TetrisBotActs /\ active_games' # active_games

C21_TetrisStep ==
    TetrisBotMoveApplied =>
        /\ active_games # NoGame
        /\ active_games.status \in {"first_move", "playing", "disconnect_wait"}
        /\ is_bot_player(active_games.current_player)

\* C21: in a falling-piece session too, every move a bot task gets applied
\* is applied to a registered session that is not finished and has the bot
\* on turn.
C21_BotMovesOnlyWhileActive == [][C21_TetrisStep]_vars

\* C23: the move log of the session that can be read holds one entry per
\* accepted move (per mark on the board), the k-th entry being that of the
\* k-th move.
C23_OneEntryPerMove ==
    Visible # NoGame => Len(Visible.moves_history) = MovesMade(Visible)

\* The shapes dealt after the first, in order: the k-th entry of the move
\* log is that of the k-th lock, and its board shows the piece that lock
\* drew spawned as the falling piece.
DealtAfterFirst(g) ==
    [k \in 1 .. Len(g.moves_history) |->
        g.moves_history[k].board_state_after.falling_piece.type]

\* C24: no shape is dealt three times in a row in a falling-piece session.
C24_NoShapeThriceInARow ==
    active_games # NoGame =>
        LET dealt == DealtAfterFirst(active_games)
        IN \A k \in 1 .. Len(dealt) - 2 :
              ~(dealt[k] = dealt[k + 1] /\ dealt[k + 1] = dealt[k + 2])

\* The timer task's gravity step locks the piece of the registered session:
\* the step from the top of the loop to the broadcast that follows a turn
\* change.
TickLocks == pc = "loop" /\ pc' = "t_bcast_turn"

\* What a manual down of the holder would have registered from the same
\* pre-state, had it drawn `gen`.
down_result(gen) ==
    tetris_engine_process_move(active_games, active_games.current_player,
                               DownMove, time_control, gen).stored

\* Same grid, scores, piece queue, spawned piece, turn, and clock of the new
\* holder.
SameLock(a, b) ==
    /\ a.board_state.grid = b.board_state.grid
    /\ a.board_state.scores = b.board_state.scores
    /\ a.board_state.next_pieces = b.board_state.next_pieces
    /\ a.board_state.falling_piece = b.board_state.falling_piece
    /\ a.current_player = b.current_player
    /\ a.time_remaining[a.current_player] = b.time_remaining[b.current_player]

\* C25: a lock made by the timer task's gravity step leaves the session as
\* a manual down of the holder from the same state would: grid, scores,
\* piece queue, turn and the new holder's clock.
C25_TickLocksAsDown ==
    [][TickLocks => \E gen \in TetrisBag :
                       SameLock(active_games', down_result(gen))]_vars

\* The same, for the locks that clear no line.
C25_TickLocksAsDownWithoutClear ==
    [][(TickLocks /\ active_games'.board_state.scores = active_games.board_state.scores)
          => \E gen \in TetrisBag :
                SameLock(active_games', down_result(gen))]_vars

\* The piece of the holder of the turn is at its spawn position and
\* overlaps occupied cells.
BlockedAtSpawn(g) ==
    /\ g # NoGame
    /\ g.status = "playing"
    /\ g.board_state.falling_piece # NoPiece
    /\ g.board_state.falling_piece.x = (BOARD_WIDTH \div 2) - 2
    /\ g.board_state.falling_piece.y = 0
    /\ ~can_place_falling_piece(g.board_state.grid, g.board_state.falling_piece)

\* A step that changes the registered session while its piece is blocked at
\* the spawn position: the timer's gravity step, a manual down or a lock.
TopOutActs == BlockedAtSpawn(active_games) /\ active_games' # active_games

\* The session the step leaves: registered still, or just retired.
AfterTopOut == IF active_games' # NoGame THEN active_games' ELSE finished_games'

EndsForOpponent ==
    /\ AfterTopOut.status = "finished"
    /\ AfterTopOut.winner = Opponent(active_games.current_player)

\* C26: a blocked spawn is never stamped into the grid, and the gravity
\* step, manual down or lock that meets it finishes the session with the
\* opponent of the holder as winner.
C26_TopOutEndsSession ==
    [][TopOutActs =>
          /\ AfterTopOut.board_state.grid = active_games.board_state.grid
          /\ EndsForOpponent]_vars

\* The step is a manual down of the holder.
IsManualDown == \E gen \in TetrisBag : active_games' = down_result(gen)

\* What the three paths do: a blocked spawn is never stamped into the grid;
\* the timer's gravity step and a lock that meet it finish the session with
\* the opponent of the holder as winner; a manual down that meets it sets
\* the board's top_out flag and leaves the session playing with the same
\* holder.
C26_TopOutEndsSessionAtTickOrLock ==
    [][TopOutActs =>
          /\ AfterTopOut.board_state.grid = active_games.board_state.grid
          /\ IF IsManualDown
             THEN /\ active_games'.status = "playing"
                  /\ active_games'.current_player = active_games.current_player
                  /\ active_games'.board_state.top_out
             ELSE EndsForOpponent]_vars

\* A session finished on a blocked spawn by a lock of its holder.
C26_FinishedByLock ==
    /\ active_games # NoGame
    /\ active_games.status = "finished"
    /\ active_games.board_state.top_out
    /\ active_games.winner = Opponent(active_games.current_player)
    /\ PiecesPlaced(active_games) = StackHeight

\* The four cells of window w hold the same mark.
Mono(grid, w) ==
    /\ grid[w[0][1]][w[0][2]] # None
    /\ \A s \in DOMAIN w : grid[w[s][1]][w[s][2]] = grid[w[0][1]][w[0][2]]

MarkOf(grid, w) == grid[w[0][1]][w[0][2]]

LinesOf(grid, slot) ==
    {w \in AllWindows : Mono(grid, w) /\ MarkOf(grid, w) = slot}

\* The first line found scanning the rows from the top, each from the left,
\* then the columns from the left, each from the top, then the diagonals of
\* the four-by-four windows, row by row.
FirstLineMark(grid) ==
    LET rowHits == {k \in 0 .. (BOARD_SIZE * BOARD_SIZE - 1) :
                       /\ k % BOARD_SIZE \in WindowStarts
                       /\ Mono(grid, RowWindow(k \div BOARD_SIZE, k % BOARD_SIZE))}
        colHits == {k \in 0 .. (BOARD_SIZE * BOARD_SIZE - 1) :
                       /\ k % BOARD_SIZE \in WindowStarts
                       /\ Mono(grid, ColWindow(k \div BOARD_SIZE, k % BOARD_SIZE))}
        diagHits == {k \in 0 .. (BOARD_SIZE * BOARD_SIZE - 1) :
                        /\ k % BOARD_SIZE \in WindowStarts
                        /\ k \div BOARD_SIZE \in WindowStarts
                        /\ \/ Mono(grid, MainWindow(k \div BOARD_SIZE, k % BOARD_SIZE))
                           \/ Mono(grid, AntiWindow(k \div BOARD_SIZE, k % BOARD_SIZE))}
    IN IF rowHits # {}
       THEN MarkOf(grid, RowWindow(SetMin(rowHits) \div BOARD_SIZE,
                                   SetMin(rowHits) % BOARD_SIZE))
       ELSE IF colHits # {}
       THEN MarkOf(grid, ColWindow(SetMin(colHits) \div BOARD_SIZE,
                                   SetMin(colHits) % BOARD_SIZE))
       ELSE LET k == SetMin(diagHits)
                m == MainWindow(k \div BOARD_SIZE, k % BOARD_SIZE)
                a == AntiWindow(k \div BOARD_SIZE, k % BOARD_SIZE)
            IN IF Mono(grid, m) THEN MarkOf(grid, m) ELSE MarkOf(grid, a)

\* Slot 0 has marked (0,0), (0,1), (0,2), (0,3) and nothing else is marked.
ExampleBoard(grid) ==
    \/ grid = MarkedBoard(RowWindow(0, 0), NoWindow, 0)
    \/ grid = MarkedBoard(ColWindow(0, 0), NoWindow, 0)

WinnerSettled == reply = "accepted"

\* C27: check_winner returns no winner on a board without a line of four,
\* slot s on a board where only s has one, and the mark of the first line
\* in scan order (rows, columns, diagonals) where both have; on the example
\* board it returns 0; and process_move ends the session for that slot.
C27_CheckWinner ==
    active_games # NoGame =>
        LET grid == active_games.grid
            lines == [slot \in Slots |-> LinesOf(grid, slot)]
        IN /\ (lines[0] = {} /\ lines[1] = {}) => check_winner(grid) = None
           /\ \A slot \in Slots :
                 (lines[slot] # {} /\ lines[Opponent(slot)] = {})
                    => check_winner(grid) = slot
           /\ (lines[0] # {} /\ lines[1] # {})
                 => check_winner(grid) = FirstLineMark(grid)
           /\ ExampleBoard(grid) => check_winner(grid) = 0
           /\ WinnerSettled =>
                 IF lines[0] = {} /\ lines[1] = {}
                 THEN active_games.status = "playing" /\ active_games.winner = None
                 ELSE /\ active_games.status = "finished"
                      /\ active_games.winner = check_winner(grid)

\* The example board has been settled for slot 0.
C27_Witness ==
    /\ WinnerSettled
    /\ active_games.grid = MarkedBoard(RowWindow(0, 0), NoWindow, 0)
    /\ active_games.status = "finished"
    /\ active_games.winner = 0

\* A board with lines of both slots, the second one ending in the bottom
\* right corner, has been settled.
C27_WitnessBoth ==
    /\ WinnerSettled
    /\ LinesOf(active_games.grid, 0) # {}
    /\ MainWindow(BOARD_SIZE - 4, BOARD_SIZE - 4) \in LinesOf(active_games.grid, 1)
    /\ active_games.winner = 0

\* From the start of its cleanup to the end of the sleep of the delay task,
\* get_game_state returns the finished session.
C28_ReadableDuringGrace ==
    (pc \in CleanupPositions \/ grace # None) =>
        /\ finished_games # NoGame
        /\ finished_games.status = "finished"
        /\ get_game_state = finished_games

\* The finished_games entry is deleted by the delay task at the end of its
\* sleep of GRACE_SECONDS seconds, and by nothing else.
C28_DeletedAtExpiry ==
    [][(finished_games # NoGame /\ finished_games' = NoGame)
          => (grace = 0 /\ active_games' = NoGame)]_vars

StillHeld == active_games # NoGame \/ finished_games # NoGame

\* The delay task starts with GRACE_SECONDS seconds to sleep.
C28_FullGrace == [][(grace = None /\ grace' # None) => grace' = GRACE_SECONDS]_vars

\* C28: a session that has reached finished stays readable through
\* get_game_state during its cleanup and the GRACE_SECONDS seconds of the
\* grace period that follows, and is in the end in neither active_games nor
\* finished_games.
C28_GoneAfterGrace ==
    /\ []C28_ReadableDuringGrace
    /\ C28_DeletedAtExpiry
    /\ C28_FullGrace
    /\ [](StillHeld => get_game_state.status = "finished")
    /\ <>[](~StillHeld)

\* The sleep of the delay task has ended and the session is gone.
C28_Gone == pc = "done" /\ grace = None /\ ~StillHeld

\* ----------------------------------------------- account recovery properties
\* The verify_code calls made with a code that have returned, in the order
\* of their return.
Verifications(code) ==
    SelectSeq(recovery.returns, LAMBDA x : x.op = "verify" /\ x.code = code)

\* The ids of the RecoveryCode rows marked used.
UsedCodes == {row.id : row \in {x \in SeqRange(recovery.codes) : x.used}}

\* The codes an accepting verify_code has marked: those of the calls that
\* returned a token and of the calls between their commit and their return.
AcceptedCodes ==
    {code \in recovery.issued : \E k \in 1 .. Len(Verifications(code)) :
                                    Verifications(code)[k].ok}
    \cup {recovery.requests[q].code :
             q \in {x \in Requests : recovery.requests[x].pc = "return_success"}}

\* C29: a recovery code returned by generate_codes is accepted by
\* verify_code exactly once: the first verify_code call with that code
\* returns a reset token, the codes marked used are exactly the codes so
\* accepted, and every later verify_code call with the same code returns no
\* reset token.
C29_CodeAcceptedOnce ==
    /\ \A code \in recovery.issued :
          /\ Len(Verifications(code)) >= 1 => Verifications(code)[1].ok
          /\ \A k \in 2 .. Len(Verifications(code)) : ~Verifications(code)[k].ok
    /\ UsedCodes \subseteq AcceptedCodes

\* Two verify_code calls have returned a reset token for one code.
C29_TwoTokens ==
    \E code \in recovery.issued :
       \E j, k \in 1 .. Len(Verifications(code)) :
          j < k /\ Verifications(code)[j].ok /\ Verifications(code)[k].ok

\* verify_code has returned a token for a code and refused its second use.
C29_AcceptedThenRefused ==
    \E code \in recovery.issued :
       /\ Len(Verifications(code)) >= 2
       /\ Verifications(code)[1].ok
       /\ ~Verifications(code)[2].ok
       /\ UsedCodes = {code}

\* The reset_password calls made with a token that have returned, in the
\* order of their return.
Resets(token) ==
    SelectSeq(recovery.returns, LAMBDA x : x.op = "reset" /\ x.token = token)

TokenUsed(token) ==
    \E k \in 1 .. Len(recovery.tokens) :
       recovery.tokens[k].id = token.jti /\ recovery.tokens[k].used

\* C30: a reset token issued by verify_code changes the password at most
\* once: the first reset_password call with it returns True and marks the
\* token's row used, and every later reset_password call with the same
\* token returns False, so that the password is the one the first call set
\* unless another token has been used.
C30_TokenResetsOnce ==
    \A token \in ResetTokens(recovery) :
       /\ Len(Resets(token)) >= 1 => Resets(token)[1].ok /\ TokenUsed(token)
       /\ \A k \in 2 .. Len(Resets(token)) : ~Resets(token)[k].ok
       /\ (/\ Len(Resets(token)) >= 1
           /\ \A other \in ResetTokens(recovery) \ {token} :
                 ~TokenUsed(other)
                 /\ \A q \in Requests : recovery.requests[q].pc # "reset_commit")
          => recovery.password_hash = get_password_hash(Resets(token)[1].password)

\* reset_password has returned True twice for one token, and the password
\* is the one given to the second call.
C30_TwoResets ==
    \E token \in ResetTokens(recovery) :
       /\ Len(Resets(token)) = 2
       /\ Resets(token)[1].ok /\ Resets(token)[2].ok
       /\ Resets(token)[1].password # Resets(token)[2].password
       /\ recovery.password_hash = get_password_hash(Resets(token)[2].password)

\* reset_password has returned True for a token, then False for it.
C30_AcceptedThenRefused ==
    \E token \in ResetTokens(recovery) :
       /\ Len(Resets(token)) = 2
       /\ Resets(token)[1].ok /\ ~Resets(token)[2].ok
       /\ recovery.password_hash = get_password_hash(Resets(token)[1].password)

\* --------------------------------------------------- lock-out properties
\* The calls that returned last are n verify_code calls with a wrong code,
\* each without a token, and the call before them (if any) is not one.
WrongCall(ret) == ret.op = "verify" /\ ret.code = WrongCode /\ ~ret.ok

TrailingWrong(n) ==
    /\ Len(recovery.returns) >= n
    /\ \A k \in Len(recovery.returns) - n + 1 .. Len(recovery.returns) :
          WrongCall(recovery.returns[k])
    /\ Len(recovery.returns) > n => ~WrongCall(recovery.returns[Len(recovery.returns) - n])

\* C31: after USER_MAX_ATTEMPTS consecutive verify_code calls with a wrong
\* code for a user who has generated codes, each having returned no token,
\* recovery_lock_until is set and equals the clock read once the fifth call
\* has returned plus USER_LOCK_SECONDS.
C31_LockedAfterFiveWrong ==
    (/\ recovery.batches >= 1
     /\ TrailingWrong(USER_MAX_ATTEMPTS)
     /\ recovery.now = recovery.returned_at)
    => /\ recovery.lock_until # None
       /\ recovery.lock_until = recovery.now + Seconds(USER_LOCK_SECONDS)

\* Five wrong codes in a row for a user who has confirmed the codes, within
\* the window: the lock is set, counted from the fifth call's clock reading
\* at its start, the back-off it then slept not included.
C31_LockedFromCallStart ==
    /\ recovery.viewed
    /\ TrailingWrong(USER_MAX_ATTEMPTS)
    /\ recovery.now = recovery.returned_at
    /\ recovery.lock_until # None
    /\ recovery.lock_until = recovery.now - get_backoff(USER_MAX_ATTEMPTS)
                             + Seconds(USER_LOCK_SECONDS)
    /\ get_backoff(USER_MAX_ATTEMPTS) = Seconds(4)

\* ---------------------------------------------- final-broadcast properties
\* Some object of the session (the registered one, the finished one, the one
\* a suspended timer task holds) has status finished.
AnyFinished ==
    \/ active_games # NoGame /\ active_games.status = "finished"
    \/ finished_games # NoGame /\ finished_games.status = "finished"
    \/ stale /\ tgs # NoGame /\ tgs.status = "finished"

\* The timer task reaches one of its awaits of broadcast_state with a
\* finished object: the message of that call carries status finished.
TimerSendsFinished ==
    /\ pc' # pc
    /\ pc' \in Suspended \cup TetrisSuspended
    /\ TickState' # NoGame
    /\ TickState'.status = "finished"

\* process_move registers a finished state and broadcasts it
\* (game_engine.py 317-318, tetris_game_engine.py 235-236).
MoveSendsFinished ==
    /\ pc' = pc
    /\ active_games # NoGame /\ active_games.status # "finished"
    /\ active_games' # NoGame /\ active_games'.status = "finished"

\* handle_player_join broadcasts the state it found (game_state.py 253).
JoinSendsFinished ==
    /\ \E slot \in Slots : Join(slot)
    /\ get_game_state'.status = "finished"

SendsFinished == TimerSendsFinished \/ MoveSendsFinished \/ JoinSendsFinished

\* C32: for every session exactly one state broadcast carrying status
\* finished is sent, whichever way the session ends: the step that gives
\* the session status finished sends it, and no step sends one for a
\* session that has an object with status finished already.
C32_OneFinishedBroadcast ==
    [][/\ (~AnyFinished /\ AnyFinished') => SendsFinished
       /\ SendsFinished => ~AnyFinished]_vars

\* ------------------------------------------------------- turn properties
\* The entries of the move history PentagoGame.process_move appends (the
\* engine's turn_completed markers left out).
SubmittedEntries(g) ==
    SelectSeq(g.moves_history, LAMBDA m : "x" \in DOMAIN m.move_data)

\* C33: in a rotating-board session every accepted move that does not end
\* the game passes the turn to the other slot, so that consecutive accepted
\* moves are made by different slots; an accepted move that ends the game
\* leaves the turn unchanged.
C33_TurnPasses ==
    /\ [][AcceptedMove =>
            active_games'.current_player =
               IF active_games'.status = "finished"
               THEN active_games.current_player
               ELSE Opponent(active_games.current_player)]_vars
    /\ [](Visible # NoGame =>
            \A k \in 1 .. Len(SubmittedEntries(Visible)) - 1 :
               SubmittedEntries(Visible)[k].player_id
                  # SubmittedEntries(Visible)[k + 1].player_id)

\* A session a move has won, its turn still with the winner, after moves
\* made in turn.
C33_Witness ==
    /\ active_games # NoGame
    /\ active_games.status = "finished"
    /\ active_games.winner # None
    /\ check_winner(active_games.grid) = active_games.winner
    /\ active_games.current_player = active_games.winner
    /\ Len(SubmittedEntries(active_games)) >= 2

\* ------------------------------------------------------------ C34

\* The piece in play was put on the board by this step and the turn passed.
LockedBy(slot) ==
    /\ active_games # NoGame
    /\ active_games' # NoGame
    /\ active_games.current_player = slot
    /\ PiecesPlaced(active_games') = PiecesPlaced(active_games) + 1
    /\ active_games'.current_player = Opponent(slot)

\* C34: when a lock leaves the next holder of the turn with no placement
\* of the next piece anywhere on the board, the session is finished and the
\* winner is the slot that locked.
C34_LockerWins ==
    [][\A slot \in Slots :
          (LockedBy(slot) /\ ~can_player_make_move(active_games'.board_state))
             => /\ active_games'.status = "finished"
                /\ active_games'.winner = slot]_vars

\* A session a lock finished because the next piece fits nowhere.
C34_NoPlacementLeft ==
    /\ active_games # NoGame
    /\ active_games.status = "finished"
    /\ PiecesPlaced(active_games) = FilledPieces + 1
    /\ ~can_player_make_move(active_games.board_state)

\* ------------------------------------------------------------ C35

Notified(game_id, k) ==
    \E i \in 1 .. Len(match_ws.sent) :
        match_ws.sent[i] = match_found(games[game_id], k, game_id)

\* C35: each of the two participants of a matched pair whose websocket
\* takes a send is sent a match_found message with the session and its own
\* side, whatever happened to the send to the other one.
C35_BothNotified ==
    \A game_id \in 1 .. Len(games) : \A k \in 1 .. 2 :
        games[game_id][k].user_id \notin match_ws.closed => Notified(game_id, k)

\* A pair was matched after the connection of its first participant was
\* lost, the connection of the second one being open.
C35_FirstLost ==
    \E game_id \in 1 .. Len(games) :
        /\ games[game_id][1].user_id \in match_ws.closed
        /\ games[game_id][2].user_id \notin match_ws.closed
        /\ ~Notified(game_id, 1)

\* ------------------------------------------------------------ C36

\* The entries of participant `user_id` waiting in one pool.
EntriesOf(players, user_id) ==
    {i \in 1 .. Len(players) : players[i].user_id = user_id}

\* C36: no session is created with the same participant in both slots, and
\* a participant has at most one entry in a pool.
C36_NoSelfMatch ==
    /\ \A game_id \in 1 .. Len(games) :
          games[game_id][1].user_id # games[game_id][2].user_id
    /\ \A i \in 1 .. Len(pools) : \A user_id \in Users :
          Cardinality(EntriesOf(pools[i].players, user_id)) <= 1

\* A session whose two entries are the first and the second join of one
\* participant.
C36_PairedWithItself ==
    \E game_id \in 1 .. Len(games) :
        /\ games[game_id][1].user_id = games[game_id][2].user_id
        /\ games[game_id][1].joined_at # games[game_id][2].joined_at

\* ------------------------------------------------------------ C37

\* The session was made for a pair taken from a casual pool.
FromCasualPool ==
    /\ games # << >>
    /\ \A k \in 1 .. 2 : ~games[1][k].rated

\* C37: a session made for a pair of a casual pool is unrated as long as
\* it is registered, in play or finished, and its end asks for no rating
\* update.
C37_CasualUnrated ==
    FromCasualPool =>
       /\ active_games # NoGame => ~active_games.rated
       /\ finished_games # NoGame =>
             ~finished_games.rated /\ ~ratings_due(finished_games)

\* A session of a casual pair that ended with a winner after an accepted
\* move: _cleanup_finished_game goes on to the rating update.
C37_CasualRatingUpdate ==
    /\ FromCasualPool
    /\ finished_games # NoGame
    /\ MovesMade(finished_games) > 0
    /\ ratings_due(finished_games)

\* ------------------------------------------------------------ C38

\* The session ended on time against the bot: the bot held the turn and the
\* human is the winner (a winning move leaves the turn with the mover, and a
\* disconnection forfeits the human).
BotLostOnTime(g) ==
    /\ g # NoGame
    /\ g.status = "finished"
    /\ g.winner \in Humans
    /\ is_bot_player(g.current_player)

\* C38: the bot does not lose on time on a turn for which no bot task was
\* ever scheduled.  A turn that a valid move gave to the bot has its task
\* (schedule_bot is part of every accepted move), so the turn without one is
\* the initial turn of a session in which no move has been made.
C38_BotTurnServed ==
    \A g \in {active_games, finished_games} :
        BotLostOnTime(g) => g.moves_history # << >>

\* The bot got the first turn, no task was ever created, and the first-move
\* timer ran out on it.
C38_BotNeverWoken ==
    /\ BotLostOnTime(finished_games)
    /\ finished_games.moves_history = << >>
    /\ bot_tasks = << >>

\* ------------------------------------------------------------ C39

\* One of the session's timers is lower in `after` than in `before`.
Decremented(before, after) ==
    \/ /\ before.first_move_timer # None
       /\ after.first_move_timer # None
       /\ after.first_move_timer < before.first_move_timer
    \/ \E slot \in Slots : after.time_remaining[slot] < before.time_remaining[slot]
    \/ /\ before.disconnect_timer # None
       /\ after.disconnect_timer # None
       /\ after.disconnect_timer < before.disconnect_timer

\* The timer task does the work of an iteration on a session that is not
\* finished: it leaves the top of its loop, or it resumes after the
\* broadcast of a turn change, which is followed by the move clock.
TickWorks ==
    /\ TickState # NoGame
    /\ TickState.status # "finished"
    /\ \/ pc = "loop" /\ pc' # "loop"
       \/ pc = "t_bcast_turn" /\ pc' # "t_bcast_turn"

\* C39: every tick of a session that is not finished changes the phase or
\* decrements a timer (the first-move timer, the on-turn clock or the
\* reconnection countdown), so that a session left without client input
\* ends after finitely many ticks.
C39_TickProgress ==
    [][TickWorks =>
          \/ pc' = "t_bcast_turn"
          \/ TickState'.status # TickState.status
          \/ Decremented(TickState, TickState')]_vars

\* A falling-piece session waits for a reconnection that no timer counts
\* down: its timer task is back at the top of its loop with nothing changed.
C39_IdleTick ==
    /\ active_games # NoGame
    /\ active_games.game_type = "tetris"
    /\ active_games.status = "disconnect_wait"
    /\ active_games.disconnect_timer = DISCONNECT_SECONDS
    /\ pc = "t_bcast_state"

\* ------------------------------------------------------------ C40

\* C40: at every point where another task can run, the session is
\* registered in at most one of active_games and finished_games, the object
\* in finished_games has status finished, and a registered object whose
\* status is not finished has no winner.
C40_Registries ==
    /\ ~(active_games # NoGame /\ finished_games # NoGame)
    /\ finished_games # NoGame => finished_games.status = "finished"
    /\ \A g \in {active_games, finished_games} \ {NoGame} :
          g.status # "finished" => g.winner = None

\* The timer task has moved a session won by a move to finished_games, and
\* a participant has joined it there.
C40_Witness ==
    /\ active_games = NoGame
    /\ finished_games # NoGame
    /\ finished_games.winner # None
    /\ MovesMade(finished_games) > 0
    /\ pc = "done"
    /\ conns = Slots
====
